---- MODULE Spec2Model ----
(***************************************************************************)
(* Model of html5-typescript-canvas: the Color4 value class (all three     *)
(* revisions of color4.ts), the Blitter back buffer with its pixel and     *)
(* bitmap primitives, the engine loader with its animation loop, and the   *)
(* effects built on them: clipping, the 2D and 3D stars, the Lissajous     *)
(* curve, the bilinear zoom, the fire, the bump mapping with its lookup    *)
(* maps, the metaballs, the rotozoom and the twirl, the horizontal lines,  *)
(* the rectangle and the twister.                                          *)
(*                                                                         *)
(* Number representation.  A JavaScript number is modelled as an integer   *)
(* count of 1/Scale units, so that fractional inputs exist.  A 32 bit      *)
(* word is the tuple <<b3, b2, b1, b0>> of its four bytes, b3 the most     *)
(* significant: this is the bit pattern, common to the signed value the    *)
(* bitwise operators return and the unsigned value a Uint32Array holds.    *)
(***************************************************************************)
EXTENDS Integers, Sequences, FiniteSets, TLC

VARIABLES
    revision,   \* which revision of color4.ts the program is built from (1, 2, 3)
    color,      \* the Color4 object the caller holds
    blitter,    \* the Blitter singleton: width, height, clipping, background, backbuffer32
    shadow,     \* per buffer index: the channels of the colour the last clipped setPixel
                \* addressed to it was given, None once another operation addressed it
    last,       \* the last operation called, its arguments and its return value
    nops,       \* number of operations called so far
    enginePc,   \* where loader() stands: "idle", "importing", "looping"
    effect,     \* the effect module loaded: "01canvas" (synchronous) or "04image"
    image,      \* the effect's BitmapImage: its state and its Bitmap fields
    initialized,\* the promise initialize() returned: "none", "pending", "resolved", "rejected"
    running,    \* loader's flag, toggled by the Space key
    elapsedTime,    \* loader's accumulated time, in 1/1000 s
    lastTimestamp,  \* loader's timestamp of the last frame, in ms
    clock,      \* performance.now(), in ms
    queued,     \* a requestAnimationFrame(main) callback is pending
    listening,  \* the keydown listener is installed
    frame,      \* the last call of main: frame number and what render was given
    fx          \* the effect module's own state: its objects, tables and last frame

(***************************************************************************)
(* Bounds                                                                  *)
(***************************************************************************)
Scale == 2
MaxColorOps == 2
MaxPixelOps == 2
MaxDraws == 1
MaxClock == 3
MaxFrames == 3
Width == 3
Height == 2

(***************************************************************************)
(* Numbers                                                                 *)
(***************************************************************************)
Num(n) == n * Scale

\* Math.floor, as an integer
FloorInt(v) == v \div Scale

Floor(v) == Num(FloorInt(v))

\* NaN: a number below every number the model computes stands for it
NaN == 0 - 1000000000

\* ToInt32 of a number of small magnitude: truncation toward zero
ToInt32(v) == IF v = NaN THEN 0 ELSE IF v >= 0 THEN v \div Scale ELSE 0 - ((0 - v) \div Scale)

MathMin(a, b) == IF a < b THEN a ELSE b

MathMax(a, b) == IF a > b THEN a ELSE b

None == <<>>

Some(v) == <<v>>

\* the value read from a typed array outside its range, or a missing argument
Undefined == <<-1, -1, -1, -1>>

(***************************************************************************)
(* 32 bit arithmetic on bit vectors                                        *)
(***************************************************************************)
Pow2(i) == 2 ^ i

\* bit i of the two's complement of the integer n, |n| < 2^23
Bit(n, i) == IF i > 23 THEN (IF n < 0 THEN 1 ELSE 0) ELSE (n \div Pow2(i)) % 2

ShiftLeft(n, k) == [i \in 0..31 |-> IF i < k THEN 0 ELSE Bit(n, i - k)]

BitOr(f, g) == [i \in 0..31 |-> IF f[i] = 1 \/ g[i] = 1 THEN 1 ELSE 0]

ByteOf(f, j) ==
    f[8*j] + 2*f[8*j+1] + 4*f[8*j+2] + 8*f[8*j+3]
    + 16*f[8*j+4] + 32*f[8*j+5] + 64*f[8*j+6] + 128*f[8*j+7]

WordOf(f) == <<ByteOf(f, 3), ByteOf(f, 2), ByteOf(f, 1), ByteOf(f, 0)>>

\* (word >> 8*j) & 0xff ; undefined >> n is 0
ShiftRightAnd255(w, j) == IF w = Undefined THEN 0 ELSE w[4 - j]

(***************************************************************************)
(* helper.ts and Color4                                                    *)
(***************************************************************************)
clamp(value, min, max) == MathMin(max, MathMax(min, value))

Color4_clamp(value) == MathMax(Num(0), MathMin(Num(255), Floor(value)))

Channels == {"alpha", "red", "green", "blue"}

Default(ch) == IF ch = "alpha" THEN Num(255) ELSE Num(0)

Param(p, ch) == IF p[ch] = None THEN Default(ch) ELSE p[ch][1]

\* the constructor's treatment of one channel argument
ConstructChannel(rev, v) == IF rev = 2 THEN clamp(v, Num(0), Num(255)) ELSE Color4_clamp(v)

Color4(rev, p) ==
    [alpha   |-> ConstructChannel(rev, Param(p, "alpha")),
     red     |-> ConstructChannel(rev, Param(p, "red")),
     green   |-> ConstructChannel(rev, Param(p, "green")),
     blue    |-> ConstructChannel(rev, Param(p, "blue")),
     cache   |-> None,
     caching |-> IF rev = 2 THEN (IF p.caching = None THEN TRUE ELSE p.caching[1]) ELSE FALSE]

NoParams == [alpha |-> None, red |-> None, green |-> None, blue |-> None, caching |-> None]

ChannelsOf(c) == [alpha |-> c.alpha, red |-> c.red, green |-> c.green, blue |-> c.blue]

\* the channels are integers in 0..255
IntegerChannels(c) ==
    \A ch \in Channels : c[ch] % Scale = 0 /\ c[ch] >= Num(0) /\ c[ch] <= Num(255)

getAABBGGRR(c) ==
    WordOf(BitOr(BitOr(ShiftLeft(ToInt32(c.alpha), 24), ShiftLeft(ToInt32(c.red), 0)),
                 BitOr(ShiftLeft(ToInt32(c.green), 8), ShiftLeft(ToInt32(c.blue), 16))))

getAARRGGBB(c) ==
    WordOf(BitOr(BitOr(ShiftLeft(ToInt32(c.alpha), 24), ShiftLeft(ToInt32(c.red), 16)),
                 BitOr(ShiftLeft(ToInt32(c.green), 8), ShiftLeft(ToInt32(c.blue), 0))))

\* revision 1 has no cache field; revisions 2 and 3 remember the argument
StoreCache(rev, w) == IF rev = 1 THEN None ELSE Some(w)

fromAABBGGRR(rev, c, w) ==
    [c EXCEPT !.alpha = Num(ShiftRightAnd255(w, 3)),
              !.red   = Num(ShiftRightAnd255(w, 0)),
              !.green = Num(ShiftRightAnd255(w, 1)),
              !.blue  = Num(ShiftRightAnd255(w, 2)),
              !.cache = StoreCache(rev, w)]

fromARRGGBB(rev, c, w) ==
    [c EXCEPT !.alpha = Num(ShiftRightAnd255(w, 3)),
              !.red   = Num(ShiftRightAnd255(w, 2)),
              !.green = Num(ShiftRightAnd255(w, 1)),
              !.blue  = Num(ShiftRightAnd255(w, 0)),
              !.cache = StoreCache(rev, w)]

\* cache ?? computed : null and undefined both fall through to the computation
Coalesce(cache, computed) ==
    IF cache = None \/ cache = Some(Undefined) THEN computed ELSE cache[1]

\* the conversion shared by toAABBGGRR and toAARRGGBB, given the packed value
\* the current channels compute to; result: the object afterwards and the return value
ToPacked(rev, c, computed) ==
    IF rev = 1 THEN [obj |-> c, ret |-> computed]
    ELSE IF rev = 2
    THEN LET c1 == IF c.caching /\ c.cache = None THEN [c EXCEPT !.cache = Some(computed)] ELSE c
         IN  [obj |-> c1, ret |-> Coalesce(c1.cache, computed)]
    ELSE LET c1 == IF c.cache = None THEN [c EXCEPT !.cache = Some(computed)] ELSE c
         IN  [obj |-> c1, ret |-> c1.cache[1]]

toAABBGGRR(rev, c) == ToPacked(rev, c, getAABBGGRR(c))

toAARRGGBB(rev, c) == ToPacked(rev, c, getAARRGGBB(c))

(***************************************************************************)
(* Typed arrays: functions on 0..n-1                                       *)
(***************************************************************************)
Length(a) == Cardinality(DOMAIN a)

ZeroWord == <<0, 0, 0, 0>>

\* the conversion a Uint32Array applies to a stored value
ToUint32(w) == IF w = Undefined THEN ZeroWord ELSE w

\* new Uint32Array(n)
Uint32Array(n) == [i \in 0..(n - 1) |-> ZeroWord]

\* a[i] = w : a write outside the array is ignored
Store(a, i, w) == IF i \in DOMAIN a THEN [a EXCEPT ![i] = ToUint32(w)] ELSE a

\* a[i] : a read outside the array is undefined
Load(a, i) == IF i \in DOMAIN a THEN a[i] ELSE Undefined

\* a.fill(w)
TypedArrayFill(a, w) == [i \in DOMAIN a |-> ToUint32(w)]

\* a.subarray(begin, end)
Subarray(a, begin, end) ==
    LET len == Length(a)
        rel(i) == IF i < 0 THEN MathMax(len + i, 0) ELSE MathMin(i, len)
        n == MathMax(rel(end) - rel(begin), 0)
    IN  [k \in 0..(n - 1) |-> a[rel(begin) + k]]

\* target.set(source, offset) : throws a RangeError when the source does not fit
TypedArraySet(target, source, offset) ==
    IF offset < 0 \/ offset + Length(source) > Length(target)
    THEN [threw |-> TRUE, buf |-> target]
    ELSE [threw |-> FALSE,
          buf |-> [i \in DOMAIN target |->
                     IF i >= offset /\ i < offset + Length(source)
                     THEN source[i - offset] ELSE target[i]]]

(***************************************************************************)
(* Clipping and the Blitter                                                *)
(***************************************************************************)
\* the conversion an Int16Array applies to a stored value
ToInt16(v) == ((v + 32768) % 65536) - 32768

Clipping(minX, minY, maxX, maxY) ==
    [minX |-> ToInt16(minX), minY |-> ToInt16(minY),
     maxX |-> ToInt16(maxX), maxY |-> ToInt16(maxY)]

Color4_white(rev) ==
    Color4(rev, [alpha |-> Some(Num(255)), red |-> Some(Num(255)), green |-> Some(Num(255)),
                 blue |-> Some(Num(255)), caching |-> None])

Color4_red(rev) ==
    Color4(rev, [alpha |-> Some(Num(255)), red |-> Some(Num(255)), green |-> Some(Num(0)),
                 blue |-> Some(Num(0)), caching |-> None])

Color4_blue(rev) ==
    Color4(rev, [alpha |-> Some(Num(255)), red |-> Some(Num(0)), green |-> Some(Num(0)),
                 blue |-> Some(Num(255)), caching |-> None])

\* the singleton before create() is called
NoBlitter ==
    [width |-> 0, height |-> 0, clipping |-> Clipping(0, 0, 0, 0),
     background |-> None, backbuffer32 |-> Uint32Array(0)]

\* Blitter.create({width, height, background})
create(width, height, background) ==
    [width |-> FloorInt(width), height |-> FloorInt(height),
     clipping |-> Clipping(0, 0, FloorInt(width), FloorInt(height)),
     background |-> Some(background),
     backbuffer32 |-> Uint32Array(FloorInt(width) * FloorInt(height))]

\* the bounds test with the maximum taken as inclusive
OutsideClipping_inclusiveMax(c, x, y) == x < c.minX \/ x > c.maxX \/ y < c.minY \/ y > c.maxY

\* the test both setPixel and getPixel make when clip is set
OutsideClipping(c, x, y) == x < c.minX \/ x >= c.maxX \/ y < c.minY \/ y >= c.maxY

\* pixel.ts setPixel: the buffer and the colour object afterwards
setPixel(rev, b, x, y, c, clip, backbuffer) ==
    IF clip /\ OutsideClipping(b.clipping, x, y)
    THEN [buf |-> backbuffer, color |-> c]
    ELSE [buf |-> Store(backbuffer, y * b.width + x, toAABBGGRR(rev, c).ret),
          color |-> toAABBGGRR(rev, c).obj]

\* pixel.ts getPixel: None for null, Some(colour) otherwise
getPixel(rev, b, x, y, clip, backbuffer) ==
    IF clip /\ OutsideClipping(b.clipping, x, y)
    THEN None
    ELSE Some(fromAABBGGRR(rev, Color4(rev, NoParams), Load(backbuffer, y * b.width + x)))

Blitter_setPixel(rev, b, x, y, c, clip) ==
    setPixel(rev, b, FloorInt(x), FloorInt(y), c, clip, b.backbuffer32)

Blitter_getPixel(rev, b, x, y, clip) ==
    getPixel(rev, b, FloorInt(x), FloorInt(y), clip, b.backbuffer32)

\* a fill that starts one entry late
fill_skipsFirst(b, w) ==
    [i \in DOMAIN b.backbuffer32 |-> IF i = 0 THEN b.backbuffer32[i] ELSE ToUint32(w)]

\* Blitter.fill(color)
fill(b, w) == TypedArrayFill(b.backbuffer32, w)

\* a clear that leaves the buffer as it is
clear_nothing(rev, b, c) == [buf |-> b.backbuffer32, color |-> c]

\* Blitter.clear(color): the buffer and the colour object afterwards
clear(rev, b, c) ==
    [buf |-> fill(b, toAABBGGRR(rev, c).ret), color |-> toAABBGGRR(rev, c).obj]

\* the rows of drawBuffer's loop from `row` on
RECURSIVE DrawRows(_, _, _, _, _, _, _, _, _, _)
DrawRows(backbuffer, destWidth, width, pixels, row, startX, startY, endX, endY, source) ==
    IF row >= endY THEN [threw |-> FALSE, buf |-> backbuffer]
    ELSE LET sourceIndex == (source.y + (row - startY)) * width + source.x
             destIndex == row * destWidth + startX
             rowWidth == endX - startX
             copied == TypedArraySet(backbuffer,
                                     Subarray(pixels, sourceIndex, sourceIndex + rowWidth),
                                     destIndex)
         IN  IF copied.threw THEN copied
             ELSE DrawRows(copied.buf, destWidth, width, pixels, row + 1,
                           startX, startY, endX, endY, source)

drawBuffer_startX(clipMinX, x) == MathMax(clipMinX, x)

\* the right end of the copy without the clamp to the clip bound
drawBuffer_endX_unclamped(clipMaxX, x, width) == x + width

drawBuffer_endX(clipMaxX, x, width) == MathMin(clipMaxX, x + width)

\* the source column without the skip of the part left of the clip bound
drawBuffer_sourceStartX_zero(clipMinX, x) == 0

drawBuffer_sourceStartX(clipMinX, x) == MathMax(0, clipMinX - x)

\* bitmap.ts drawBuffer: the buffer afterwards, and whether a RangeError was thrown
drawBuffer(b, width, height, pixels, x, y, clip, backbuffer) ==
    LET clipMinX == IF clip THEN b.clipping.minX ELSE 0
        clipMinY == IF clip THEN b.clipping.minY ELSE 0
        clipMaxX == IF clip THEN b.clipping.maxX ELSE b.width
        clipMaxY == IF clip THEN b.clipping.maxY ELSE b.height
        startX == drawBuffer_startX(clipMinX, x)
        startY == MathMax(clipMinY, y)
        endX == drawBuffer_endX(clipMaxX, x, width)
        endY == MathMin(clipMaxY, y + height)
        source == [x |-> drawBuffer_sourceStartX(clipMinX, x), y |-> MathMax(0, clipMinY - y)]
    IN  IF startX >= endX \/ startY >= endY
        THEN [threw |-> FALSE, buf |-> backbuffer]
        ELSE DrawRows(backbuffer, b.width, width, pixels, startY,
                      startX, startY, endX, endY, source)

\* new Bitmap({width, height})
Bitmap(width, height) ==
    [width |-> FloorInt(width), height |-> FloorInt(height),
     data |-> Uint32Array(FloorInt(width) * FloorInt(height))]

drawBitmap(b, bitmap, x, y, clip, backbuffer) ==
    drawBuffer(b, bitmap.width, bitmap.height, bitmap.data, x, y, clip, backbuffer)

(***************************************************************************)
(* Inputs of the Color4 operations                                         *)
(***************************************************************************)
\* 12.5 and 255.5 when Scale = 2
Frac(n) == Num(n) + 1

CtorChannels ==
    { [alpha |-> None, red |-> None, green |-> None, blue |-> None],
      [alpha |-> None, red |-> Some(Num(255)), green |-> Some(Num(0)), blue |-> Some(Num(0))],
      [alpha |-> Some(Num(128)), red |-> Some(Num(1)), green |-> Some(Num(2)), blue |-> Some(Num(3))],
      [alpha |-> Some(Num(-1)), red |-> Some(Num(300)), green |-> Some(Frac(12)), blue |-> Some(Frac(255))] }

CtorParams ==
    { [alpha |-> q.alpha, red |-> q.red, green |-> q.green, blue |-> q.blue, caching |-> k] :
        q \in CtorChannels, k \in {None, Some(FALSE)} }

SetValues == {Num(7), Num(300), Num(-1), Frac(12)}

SampleWords == { <<255, 0, 0, 255>>, <<128, 3, 2, 1>>, <<255, 7, 9, 7>>, <<0, 0, 0, 0>> }

NoCall ==
    [op |-> "new", ch |-> "", val |-> 0, params |-> NoParams, word |-> Undefined,
     ret |-> Undefined, x |-> 0, y |-> 0, clip |-> FALSE, width |-> 0, height |-> 0,
     pixels |-> Uint32Array(0), before |-> Uint32Array(0), got |-> None, threw |-> FALSE,
     byDefault |-> FALSE]

(***************************************************************************)
(* State of the engine before loader() is called                           *)
(***************************************************************************)
engineVars ==
    <<enginePc, effect, image, initialized, running, elapsedTime, lastTimestamp, clock,
      queued, listening, frame, fx>>

vars == <<revision, color, blitter, shadow, last, nops, engineVars>>

\* new BitmapImage(): an empty Bitmap whose loading promise is pending
BitmapImage == [state |-> "created", bitmap |-> Bitmap(Num(0), Num(0))]

NoFrame ==
    [count |-> 0, elapsedTime |-> 0, initialized |-> "none", blitted |-> FALSE,
     timestamp |-> 0, running |-> TRUE, resumed |-> FALSE]

\* no effect module is loaded
NoEffect == [kind |-> "none"]

\* loader() has not been called
LoaderIdle ==
    /\ enginePc = "idle"
    /\ effect = "01canvas"
    /\ image = BitmapImage
    /\ initialized = "none"
    /\ running = FALSE
    /\ elapsedTime = 0
    /\ lastTimestamp = 0
    /\ clock = 0
    /\ queued = FALSE
    /\ listening = FALSE
    /\ frame = NoFrame

EngineIdle ==
    /\ LoaderIdle
    /\ fx = NoEffect

(***************************************************************************)
(* Color4 operations as actions                                            *)
(***************************************************************************)
ColorInit ==
    /\ revision \in 1..3
    /\ color = Color4(revision, NoParams)
    /\ blitter = NoBlitter
    /\ shadow = [i \in DOMAIN NoBlitter.backbuffer32 |-> None]
    /\ last = NoCall
    /\ nops = 0
    /\ EngineIdle

ColorConstruct ==
    /\ nops < MaxColorOps
    /\ \E p \in CtorParams :
          /\ color' = Color4(revision, p)
          /\ last' = [NoCall EXCEPT !.op = "construct", !.params = p]
    /\ nops' = nops + 1
    /\ UNCHANGED engineVars
    /\ UNCHANGED <<revision, blitter, shadow>>

\* a direct assignment to one of the public channel fields
ColorAssign ==
    /\ nops < MaxColorOps
    /\ \E ch \in Channels, v \in SetValues :
          /\ color' = [color EXCEPT ![ch] = v]
          /\ last' = [NoCall EXCEPT !.op = "assign", !.ch = ch, !.val = v]
    /\ nops' = nops + 1
    /\ UNCHANGED engineVars
    /\ UNCHANGED <<revision, blitter, shadow>>

ColorFromAABBGGRR ==
    /\ nops < MaxColorOps
    /\ \E w \in SampleWords :
          /\ color' = fromAABBGGRR(revision, color, w)
          /\ last' = [NoCall EXCEPT !.op = "fromAABBGGRR", !.word = w]
    /\ nops' = nops + 1
    /\ UNCHANGED engineVars
    /\ UNCHANGED <<revision, blitter, shadow>>

ColorFromARRGGBB ==
    /\ nops < MaxColorOps
    /\ \E w \in SampleWords :
          /\ color' = fromARRGGBB(revision, color, w)
          /\ last' = [NoCall EXCEPT !.op = "fromARRGGBB", !.word = w]
    /\ nops' = nops + 1
    /\ UNCHANGED engineVars
    /\ UNCHANGED <<revision, blitter, shadow>>

ColorToAABBGGRR ==
    /\ nops < MaxColorOps
    /\ color' = toAABBGGRR(revision, color).obj
    /\ last' = [NoCall EXCEPT !.op = "toAABBGGRR", !.ret = toAABBGGRR(revision, color).ret]
    /\ nops' = nops + 1
    /\ UNCHANGED engineVars
    /\ UNCHANGED <<revision, blitter, shadow>>

ColorToAARRGGBB ==
    /\ nops < MaxColorOps
    /\ color' = toAARRGGBB(revision, color).obj
    /\ last' = [NoCall EXCEPT !.op = "toAARRGGBB", !.ret = toAARRGGBB(revision, color).ret]
    /\ nops' = nops + 1
    /\ UNCHANGED engineVars
    /\ UNCHANGED <<revision, blitter, shadow>>


ColorNext ==
    \/ ColorConstruct
    \/ ColorAssign
    \/ ColorFromAABBGGRR
    \/ ColorFromARRGGBB
    \/ ColorToAABBGGRR
    \/ ColorToAARRGGBB

SpecColor == ColorInit /\ [][ColorNext]_vars

(***************************************************************************)
(* Pixel operations of the Blitter as actions                              *)
(***************************************************************************)
XInputs == {Num(k) : k \in (0 - 1)..Width}

YInputs == {Num(k) : k \in (0 - 1)..Height}

ShadeValues == {Num(0), Num(200)}

PixelInit ==
    /\ revision \in 1..3
    /\ color = Color4_red(revision)
    /\ blitter = create(Num(Width), Num(Height), Color4_white(revision))
    /\ shadow = [i \in 0..(Width * Height - 1) |-> None]
    /\ last = [NoCall EXCEPT !.op = "create"]
    /\ nops = 0
    /\ EngineIdle

BlitterSetPixel ==
    /\ nops < MaxPixelOps
    /\ \E x \in XInputs, y \in YInputs, clip \in BOOLEAN :
          LET r == Blitter_setPixel(revision, blitter, x, y, color, clip)
              index == FloorInt(y) * blitter.width + FloorInt(x)
              skipped == clip /\ OutsideClipping(blitter.clipping, FloorInt(x), FloorInt(y))
          IN  /\ blitter' = [blitter EXCEPT !.backbuffer32 = r.buf]
              /\ color' = r.color
              /\ shadow' = IF skipped \/ index \notin DOMAIN shadow THEN shadow
                           ELSE [shadow EXCEPT ![index] =
                                    IF clip /\ IntegerChannels(color)
                                    THEN Some(ChannelsOf(color)) ELSE None]
              /\ last' = [NoCall EXCEPT !.op = "setPixel", !.x = x, !.y = y, !.clip = clip,
                                        !.before = blitter.backbuffer32]
    /\ nops' = nops + 1
    /\ UNCHANGED engineVars
    /\ UNCHANGED revision

BlitterGetPixel ==
    /\ nops < MaxPixelOps
    /\ \E x \in XInputs, y \in YInputs, clip \in BOOLEAN :
          last' = [NoCall EXCEPT !.op = "getPixel", !.x = x, !.y = y, !.clip = clip,
                                 !.before = blitter.backbuffer32,
                                 !.got = Blitter_getPixel(revision, blitter, x, y, clip)]
    /\ nops' = nops + 1
    /\ UNCHANGED engineVars
    /\ UNCHANGED <<revision, color, blitter, shadow>>

BlitterClear ==
    /\ nops < MaxPixelOps
    /\ \E byDefault \in BOOLEAN :
          LET r == clear(revision, blitter, IF byDefault THEN blitter.background[1] ELSE color)
          IN  /\ blitter' = [blitter EXCEPT !.backbuffer32 = r.buf,
                                            !.background = IF byDefault THEN Some(r.color) ELSE @]
              /\ color' = IF byDefault THEN color ELSE r.color
              /\ last' = [NoCall EXCEPT !.op = "clear", !.byDefault = byDefault,
                                        !.before = blitter.backbuffer32]
    /\ shadow' = [i \in DOMAIN shadow |-> None]
    /\ nops' = nops + 1
    /\ UNCHANGED engineVars
    /\ UNCHANGED revision

BlitterFill ==
    /\ nops < MaxPixelOps
    /\ \E w \in SampleWords :
          /\ blitter' = [blitter EXCEPT !.backbuffer32 = fill(blitter, w)]
          /\ last' = [NoCall EXCEPT !.op = "fill", !.word = w, !.before = blitter.backbuffer32]
    /\ shadow' = [i \in DOMAIN shadow |-> None]
    /\ nops' = nops + 1
    /\ UNCHANGED engineVars
    /\ UNCHANGED <<revision, color>>

\* an effect shading its reusable colour: color.red = color.green = color.blue = shade
Shade ==
    /\ nops < MaxPixelOps
    /\ \E shade \in ShadeValues :
          /\ color' = [color EXCEPT !.red = shade, !.green = shade, !.blue = shade]
          /\ last' = [NoCall EXCEPT !.op = "shade", !.val = shade]
    /\ nops' = nops + 1
    /\ UNCHANGED engineVars
    /\ UNCHANGED <<revision, blitter, shadow>>

PixelNext ==
    \/ BlitterSetPixel
    \/ BlitterGetPixel
    \/ BlitterClear
    \/ BlitterFill
    \/ Shade
    \/ ColorToAARRGGBB

SpecPixel == PixelInit /\ [][PixelNext]_vars

(***************************************************************************)
(* Bitmap operations of the Blitter as actions                             *)
(***************************************************************************)
\* a source whose pixels all differ, so that a copy shows where it came from
Gradient(n) == [k \in 0..(n - 1) |-> <<255, 128, 64, k + 1>>]

Image(width, height) == [Bitmap(Num(width), Num(height)) EXCEPT !.data = Gradient(width * height)]

\* a 1x1 image, an image of the size of the canvas, and a BitmapImage not yet loaded
Bitmaps == {Image(1, 1), Image(Width, Height), Bitmap(Num(0), Num(0))}

XOffsets == (0 - 1)..Width

YOffsets == (0 - 1)..Height

BitmapInit ==
    /\ revision = 2
    /\ color = Color4_red(revision)
    /\ blitter = create(Num(Width), Num(Height), Color4_white(revision))
    /\ shadow = [i \in 0..(Width * Height - 1) |-> None]
    /\ last = [NoCall EXCEPT !.op = "create"]
    /\ nops = 0
    /\ EngineIdle

BlitterDrawBuffer ==
    /\ nops < MaxDraws
    /\ \E width \in 1..Width, height \in 1..Height, x \in XOffsets, y \in YOffsets,
          clip \in BOOLEAN :
          LET pixels == Gradient(width * height)
              r == drawBuffer(blitter, width, height, pixels, x, y, clip, blitter.backbuffer32)
          IN  /\ blitter' = [blitter EXCEPT !.backbuffer32 = r.buf]
              /\ last' = [NoCall EXCEPT !.op = "drawBuffer", !.width = width,
                                        !.height = height, !.pixels = pixels, !.x = x, !.y = y,
                                        !.clip = clip, !.before = blitter.backbuffer32,
                                        !.threw = r.threw]
    /\ shadow' = [i \in DOMAIN shadow |-> None]
    /\ nops' = nops + 1
    /\ UNCHANGED engineVars
    /\ UNCHANGED <<revision, color>>

BlitterDrawBitmap ==
    /\ nops < MaxDraws
    /\ \E bitmap \in Bitmaps, x \in XOffsets, y \in YOffsets, clip \in BOOLEAN :
          LET r == drawBitmap(blitter, bitmap, x, y, clip, blitter.backbuffer32)
          IN  /\ blitter' = [blitter EXCEPT !.backbuffer32 = r.buf]
              /\ last' = [NoCall EXCEPT !.op = "drawBitmap", !.width = bitmap.width,
                                        !.height = bitmap.height, !.pixels = bitmap.data,
                                        !.x = x, !.y = y, !.clip = clip,
                                        !.before = blitter.backbuffer32, !.threw = r.threw]
    /\ shadow' = [i \in DOMAIN shadow |-> None]
    /\ nops' = nops + 1
    /\ UNCHANGED engineVars
    /\ UNCHANGED <<revision, color>>

BitmapNext ==
    \/ BlitterDrawBuffer
    \/ BlitterDrawBitmap

SpecBitmap == BitmapInit /\ [][BitmapNext]_vars

(***************************************************************************)
(* The engine: loader(), the image events, main() and the keydown listener *)
(***************************************************************************)
Effects == {"01canvas", "04image"}

KeyCodes == {"Space", "KeyF"}

EngineInit ==
    /\ revision = 2
    /\ color = Color4_blue(revision)
    /\ blitter = NoBlitter
    /\ shadow = [i \in DOMAIN NoBlitter.backbuffer32 |-> None]
    /\ last = NoCall
    /\ nops = 0
    /\ enginePc = "idle"
    /\ effect \in Effects
    /\ image = BitmapImage
    /\ initialized = "none"
    /\ running = FALSE
    /\ elapsedTime = 0
    /\ lastTimestamp = 0
    /\ clock = 0
    /\ queued = FALSE
    /\ listening = FALSE
    /\ frame = NoFrame
    /\ fx = NoEffect

\* loader(path) up to its await of import(path); the canvas is created with
\* the model's size in place of 640x480
Loader ==
    /\ enginePc = "idle"
    /\ blitter' = create(Num(Width), Num(Height), Color4_white(revision))
    /\ shadow' = [i \in 0..(Width * Height - 1) |-> None]
    /\ enginePc' = "importing"
    /\ UNCHANGED <<revision, color, last, nops, effect, image, initialized, running,
                   elapsedTime, lastTimestamp, clock, queued, listening, frame, fx>>

\* the promise effect.initialize() returns at its return: 04image has called
\* image.load(url) and is suspended at await image.loading()
initialize(e) ==
    IF e = "04image"
    THEN [image |-> [BitmapImage EXCEPT !.state = "loading"], promise |-> "pending"]
    ELSE [image |-> BitmapImage, promise |-> "resolved"]

\* loader() from the resolution of import(path) to its end: initialize() is
\* called and its promise dropped, the first frame requested, the listener added
ImportResolved ==
    /\ enginePc = "importing"
    /\ image' = initialize(effect).image
    /\ initialized' = initialize(effect).promise
    /\ running' = TRUE
    /\ elapsedTime' = 0
    /\ lastTimestamp' = clock
    /\ enginePc' = "looping"
    /\ queued' = TRUE
    /\ listening' = TRUE
    /\ UNCHANGED <<revision, color, blitter, shadow, last, nops, effect, clock, frame, fx>>

\* image.onload: BitmapImage.loader() fills the Bitmap, resolve() settles the
\* loading promise and initialize() runs to its end in the same turn
ImageOnload ==
    /\ image.state = "loading"
    /\ image' = [state |-> "loaded", bitmap |-> Image(Width, Height)]
    /\ initialized' = "resolved"
    /\ UNCHANGED <<revision, color, blitter, shadow, last, nops, enginePc, effect, running,
                   elapsedTime, lastTimestamp, clock, queued, listening, frame, fx>>

\* image.onerror: reject() settles the loading promise, initialize() rejects
ImageOnerror ==
    /\ image.state = "loading"
    /\ image' = [image EXCEPT !.state = "failed"]
    /\ initialized' = "rejected"
    /\ UNCHANGED <<revision, color, blitter, shadow, last, nops, enginePc, effect, running,
                   elapsedTime, lastTimestamp, clock, queued, listening, frame, fx>>

\* effect.render(blitter, elapsedTime): the buffer and the colour afterwards
render(e, rev, b, img, c) ==
    IF e = "04image"
    THEN [buf |-> drawBitmap(b, img.bitmap, 0, 0, TRUE, b.backbuffer32).buf, color |-> c]
    ELSE clear(rev, b, c)

\* an elapsed time that counts the paused frames too
Main_elapsedTime_always(run, elapsed, delta) == elapsed + delta

\* if (running) elapsedTime = elapsedTime + delta
Main_elapsedTime(run, elapsed, delta) == IF run THEN elapsed + delta ELSE elapsed

\* main(timestamp), the animation frame callback; frame keeps the arguments
\* of the call: its timestamp, whether the loop was running, and whether it
\* was running again after a paused frame
Main ==
    /\ queued
    /\ frame.count < MaxFrames
    /\ LET timestamp == clock
           delta == timestamp - lastTimestamp
           elapsed == Main_elapsedTime(running, elapsedTime, delta)
           r == render(effect, revision, blitter, image, color)
       IN  /\ lastTimestamp' = timestamp
           /\ elapsedTime' = elapsed
           /\ blitter' = [blitter EXCEPT !.backbuffer32 = r.buf]
           /\ color' = r.color
           /\ frame' = [count |-> frame.count + 1, elapsedTime |-> elapsed,
                        initialized |-> initialized, blitted |-> TRUE,
                        timestamp |-> timestamp, running |-> running,
                        resumed |-> running /\ frame.count > 0 /\ ~frame.running]
    /\ queued' = TRUE
    /\ shadow' = [i \in DOMAIN shadow |-> None]
    /\ UNCHANGED <<revision, last, nops, enginePc, effect, image, initialized, running,
                   clock, listening, fx>>

\* the keydown listener
Keydown ==
    /\ listening
    /\ \E code \in KeyCodes : running' = IF code = "Space" THEN ~running ELSE running
    /\ UNCHANGED <<revision, color, blitter, shadow, last, nops, enginePc, effect, image,
                   initialized, elapsedTime, lastTimestamp, clock, queued, listening, frame, fx>>

\* time passes between two events
Tick ==
    /\ clock < MaxClock
    /\ clock' = clock + 1
    /\ UNCHANGED <<revision, color, blitter, shadow, last, nops, enginePc, effect, image,
                   initialized, running, elapsedTime, lastTimestamp, queued, listening, frame, fx>>

EngineNext ==
    \/ Loader
    \/ ImportResolved
    \/ ImageOnload
    \/ ImageOnerror
    \/ Main
    \/ Keydown
    \/ Tick

SpecEngine == EngineInit /\ [][EngineNext]_vars

(***************************************************************************)
(* Claims about Color4                                                     *)
(***************************************************************************)
SwapRedBlue(w) == <<w[1], w[4], w[3], w[2]>>

\* C6: in every state a Color4 can be brought into by construction, channel
\* assignments, fromAABBGGRR, fromARRGGBB, toAABBGGRR and toAARRGGBB, a call of
\* toAABBGGRR() returns alpha<<24 | blue<<16 | green<<8 | red of the current
\* channels and a call of toAARRGGBB() returns alpha<<24 | red<<16 | green<<8 | blue.
C6_PackedNeverStale ==
    /\ toAABBGGRR(revision, color).ret = getAABBGGRR(color)
    /\ toAARRGGBB(revision, color).ret = getAARRGGBB(color)

\* C7: fromAABBGGRR(v).toAABBGGRR() is v, and for every colour with integer
\* channels in 0..255 fromAABBGGRR(c.toAABBGGRR()) has the channels of c; the
\* same for fromARRGGBB / toAARRGGBB.
C7_RoundTrip ==
    /\ last.op = "fromAABBGGRR" => toAABBGGRR(revision, color).ret = last.word
    /\ last.op = "fromARRGGBB" => toAARRGGBB(revision, color).ret = last.word
    /\ IntegerChannels(color) =>
          /\ ChannelsOf(fromAABBGGRR(revision, Color4(revision, NoParams),
                                     toAABBGGRR(revision, color).ret)) = ChannelsOf(color)
          /\ ChannelsOf(fromARRGGBB(revision, Color4(revision, NoParams),
                                    toAARRGGBB(revision, color).ret)) = ChannelsOf(color)

\* C8: for a packed v whose lowest byte differs from its third byte,
\* fromAABBGGRR(v).toAARRGGBB() differs from v and is v with these two bytes
\* swapped; the same for fromARRGGBB(v).toAABBGGRR().
C8_CrossConventionSwaps ==
    /\ (last.op = "fromAABBGGRR" /\ last.word[4] # last.word[2]) =>
          /\ toAARRGGBB(revision, color).ret # last.word
          /\ toAARRGGBB(revision, color).ret = SwapRedBlue(last.word)
    /\ (last.op = "fromARRGGBB" /\ last.word[4] # last.word[2]) =>
          /\ toAABBGGRR(revision, color).ret # last.word
          /\ toAABBGGRR(revision, color).ret = SwapRedBlue(last.word)

\* C9: a channel read back after it was given to the constructor or assigned
\* is max(0, min(255, floor(value))); the constructor defaults are alpha = 255
\* and red = green = blue = 0.
C9_ChannelsClamped ==
    /\ last.op = "construct" =>
          \A ch \in Channels : color[ch] = Color4_clamp(Param(last.params, ch))
    /\ last.op = "assign" => color[last.ch] = Color4_clamp(last.val)
    /\ last.op = "new" => ChannelsOf(color) =
          [alpha |-> Num(255), red |-> Num(0), green |-> Num(0), blue |-> Num(0)]

(***************************************************************************)
(* Claims about the pixel operations                                       *)
(***************************************************************************)
IndexOf(x, y) == y * blitter.width + x

\* C1: for every (x, y) inside the buffer, getPixel(x, y, clip = true) returns
\* the channels of the colour the last setPixel(x, y, c, clip = true) was given
\* (c with integer channels in 0..255), whatever operations addressed other
\* coordinates since.
C1_SetThenGet ==
    \A x \in 0..(Width - 1), y \in 0..(Height - 1) :
        shadow[IndexOf(x, y)] # None =>
            LET got == Blitter_getPixel(revision, blitter, Num(x), Num(y), TRUE)
            IN  got # None /\ ChannelsOf(got[1]) = shadow[IndexOf(x, y)][1]

LastOutside == OutsideClipping(blitter.clipping, FloorInt(last.x), FloorInt(last.y))

\* C2: outside the clipping region setPixel(x, y, c, clip = true) leaves every
\* entry of the back buffer unchanged and getPixel(x, y, clip = true) returns
\* null; inside it setPixel changes no entry but the one at y * width + x.
C2_OutsideIsNoOp ==
    /\ (last.op = "setPixel" /\ last.clip /\ LastOutside) =>
          blitter.backbuffer32 = last.before
    /\ (last.op = "setPixel" /\ last.clip /\ ~LastOutside) =>
          \A i \in DOMAIN last.before :
              i # IndexOf(FloorInt(last.x), FloorInt(last.y)) =>
                  blitter.backbuffer32[i] = last.before[i]
    /\ (last.op = "getPixel" /\ last.clip /\ LastOutside) => last.got = None
    /\ \A x \in XInputs, y \in YInputs :
          (x < Num(0) \/ x >= Num(Width) \/ y < Num(0) \/ y >= Num(Height)) =>
              Blitter_getPixel(revision, blitter, x, y, TRUE) = None

\* a clipped setPixel outside the region, after an operation that wrote the buffer
C2_Witness ==
    /\ last.op = "setPixel" /\ last.clip /\ LastOutside
    /\ last.before # Uint32Array(Width * Height)

\* C5: after clear(color) every one of the width * height entries is
\* color.toAABBGGRR(), the background's when no argument is given; after
\* fill(v) every entry is v.
C5_ClearFillsAll ==
    /\ last.op \in {"clear", "fill"} => Length(blitter.backbuffer32) = Width * Height
    /\ (last.op = "clear" /\ last.byDefault) =>
          \A i \in DOMAIN blitter.backbuffer32 :
              blitter.backbuffer32[i] = toAABBGGRR(revision, blitter.background[1]).ret
    /\ (last.op = "clear" /\ ~last.byDefault) =>
          \A i \in DOMAIN blitter.backbuffer32 :
              blitter.backbuffer32[i] = toAABBGGRR(revision, color).ret
    /\ last.op = "fill" =>
          \A i \in DOMAIN blitter.backbuffer32 : blitter.backbuffer32[i] = last.word

\* a fill with 0xFF0000FF of a buffer that held something else
C5_Witness ==
    /\ last.op = "fill" /\ last.word = <<255, 0, 0, 255>>
    /\ \E i \in DOMAIN last.before : last.before[i] # last.word /\ last.before[i] # ZeroWord

(***************************************************************************)
(* Claims about drawBuffer                                                 *)
(***************************************************************************)
LastDraw == last.op \in {"drawBuffer", "drawBitmap"}

\* (dx, dy) lies in the source rectangle placed at the offset of the last draw
InOffsetSource(dx, dy) ==
    /\ last.x <= dx /\ dx < last.x + last.width
    /\ last.y <= dy /\ dy < last.y + last.height

\* C3: drawBuffer(w, h, pixels, x, y, clip) sets every destination pixel
\* (dx, dy) in the intersection of [x, x+w) x [y, y+h) with the destination
\* bounds to pixels[(dy-y)*w + (dx-x)], for negative offsets and for sources
\* that overhang the right or bottom edge too.
C3_DrawBufferCopies ==
    LastDraw =>
        /\ ~last.threw
        /\ \A dx \in 0..(Width - 1), dy \in 0..(Height - 1) :
              InOffsetSource(dx, dy) =>
                  blitter.backbuffer32[IndexOf(dx, dy)]
                      = last.pixels[(dy - last.y) * last.width + (dx - last.x)]

\* a draw at a negative offset in both directions that still reaches the buffer
C3_Witness ==
    /\ last.op = "drawBuffer" /\ last.x < 0 /\ last.y < 0
    /\ last.width = Width /\ last.height = Height
    /\ blitter.backbuffer32 # last.before

\* C4: drawBuffer changes no destination pixel outside the intersection of the
\* offset source rectangle with the destination bounds, with clip and without;
\* a source fully outside leaves the buffer as it was.
C4_DrawBufferFrame ==
    LastDraw =>
        \A dx \in 0..(Width - 1), dy \in 0..(Height - 1) :
            ~InOffsetSource(dx, dy) =>
                blitter.backbuffer32[IndexOf(dx, dy)] = last.before[IndexOf(dx, dy)]

\* a draw that overhangs the right edge and wrote the part inside
C4_Witness ==
    /\ last.op = "drawBuffer" /\ last.x < Width /\ last.x + last.width > Width
    /\ last.y + last.height < Height
    /\ blitter.backbuffer32 # last.before

(***************************************************************************)
(* Claims about the engine                                                 *)
(***************************************************************************)
\* C10: the scheduler never calls render before the effect's initialize has
\* completed: every call of render is made with the promise of initialize
\* resolved, in every interleaving of the image's load event and the animation
\* frames.
C10_RenderAfterInitialize ==
    frame.count > 0 => frame.initialized = "resolved"


(***************************************************************************)
(* Clipping.inside and Clipping.outside                                    *)
(***************************************************************************)
\* an inside test that takes both maxima as outside
Clipping_inside_exclusiveMax(c, x, y) ==
    x >= Num(c.minX) /\ x < Num(c.maxX) /\ y >= Num(c.minY) /\ y < Num(c.maxY)

\* Clipping.inside(x, y): both maxima count as inside
Clipping_inside(c, x, y) ==
    x >= Num(c.minX) /\ x <= Num(c.maxX) /\ y >= Num(c.minY) /\ y <= Num(c.maxY)

\* Clipping.outside(x, y): both maxima count as outside
Clipping_outside(c, x, y) ==
    x < Num(c.minX) \/ x >= Num(c.maxX) \/ y < Num(c.minY) \/ y >= Num(c.maxY)

(***************************************************************************)
(* 3D star field: the Star3D class and the inline render of 14stars3d.     *)
(* A quotient a/b is carried as numerator and denominator, so projection   *)
(* and the random ranges are exact.                                        *)
(***************************************************************************)
MaxStarCycles == 2

\* the far plane (maxZ is 255 in the effect; the model takes a near one)
Far == 4

minZ == 0

\* Math.round(num / den) for den > 0: halves round towards plus infinity
MathRound(num, den) == (2 * num + den) \div (2 * den)

\* helper.ts randomRange(min, max) with min = minN / d and max = maxN / d:
\* of the model's numbers in [min, max) the least, the greatest, and zero
randomRange(minN, maxN, d) ==
    LET S == {v \in ((minN \div d) - 1)..((maxN \div d) + 1) : minN <= v * d /\ v * d < maxN}
    IN  {v \in S : v = 0 \/ (\A u \in S : v <= u) \/ (\A u \in S : u <= v)}

Color4_black(rev) ==
    Color4(rev, [alpha |-> Some(Num(255)), red |-> Some(Num(0)), green |-> Some(Num(0)),
                 blue |-> Some(Num(0)), caching |-> None])

Vector3(x, y, z) == [x |-> x, y |-> y, z |-> z]

\* new Star3D(position, velocity, color, width, height, near, far); the
\* colour is the object the variable color holds; x and y are not assigned
Star3D(position, velocity, width, height, near, far) ==
    [position |-> position, velocity |-> velocity, width |-> width, height |-> height,
     near |-> near, far |-> far, x |-> None, y |-> None]

\* Star3D.reset(): centerXscaled = centerX * far / max(centerX, centerY),
\* that is far * width / max(width, height)
Star3D_reset(s) ==
    LET m == MathMax(s.width, s.height)
    IN  {[s EXCEPT !.position = Vector3(px, py, s.far)] :
            px \in randomRange(0 - s.far * s.width, s.far * s.width, m),
            py \in randomRange(0 - s.far * s.height, s.far * s.height, m)}

\* Star3D.projection(), for position.z > 0:
\* (x / z) * centerX + centerX = (x * width + width * z) / (2 * z)
Star3D_projection(s) ==
    LET p == s.position
    IN  [s EXCEPT !.x = Some(MathRound(p.x * s.width + s.width * p.z, 2 * p.z)),
                  !.y = Some(MathRound(p.y * s.height + s.height * p.z, 2 * p.z))]

\* Star3D.update(deltaTime), deltaTime in whole seconds: the stars it can leave
Star3D_update(s, deltaTime) ==
    LET moved == [s EXCEPT !.position = Vector3(@.x + s.velocity.x * deltaTime,
                                                @.y + s.velocity.y * deltaTime,
                                                @.z + s.velocity.z * deltaTime)]
    IN  IF moved.position.z <= s.near THEN Star3D_reset(moved) ELSE {moved}

\* Star3D.project(clipping): the stars it can leave
Star3D_project(s, clipping) ==
    LET p == Star3D_projection(s)
    IN  IF Clipping_outside(clipping, Num(p.x[1]), Num(p.y[1]))
        THEN {Star3D_projection(r) : r \in Star3D_reset(p)}
        ELSE {p}

\* Star3D.render(blitter): the buffer and the colour object afterwards
Star3D_render(rev, b, s, c) ==
    LET shade == Num(255) - s.position.z
    IN  Blitter_setPixel(rev, b, Num(s.x[1]), Num(s.y[1]),
                         [c EXCEPT !.red = shade, !.green = shade, !.blue = shade], FALSE)

\* Particle.update: empty in the first revision of particle.ts, position.add(velocity)
\* in the second
Particle_update(particleRevision, s) ==
    IF particleRevision = 1 THEN s
    ELSE [s EXCEPT !.position = Vector3(@.x + s.velocity.x, @.y + s.velocity.y,
                                        @.z + s.velocity.z)]

\* the reset of the inline render: x in [-centerX, centerX), y in [-centerY, centerY)
Inline_reset(s) ==
    {[s EXCEPT !.position = Vector3(px, py, s.far)] :
        px \in randomRange(0 - Num(s.width), Num(s.width), 2),
        py \in randomRange(0 - Num(s.height), Num(s.height), 2)}

DeltaTimes == {0, 1, 2}

StarPositions == {Vector3(px, 0, pz) : px \in {0, Num(1)}, pz \in {Num(1), Num(Far)}}

StarVelocity == Vector3(0, 0, 0 - Num(1))

NoWrite == [x |-> 0, y |-> 0, wrote |-> FALSE]

Star3DInit ==
    /\ revision = 2
    /\ color = Color4(revision, [NoParams EXCEPT !.caching = Some(FALSE)])
    /\ blitter = create(Num(Width), Num(Height), Color4_white(revision))
    /\ shadow = [i \in 0..(Width * Height - 1) |-> None]
    /\ last = [NoCall EXCEPT !.op = "create"]
    /\ nops = 0
    /\ LoaderIdle
    /\ \E kind \in {"Star3D", "inline"}, particle \in 1..2, position \in StarPositions :
          fx = [kind |-> kind, pc |-> "created", particle |-> particle,
                star |-> Star3D(position, StarVelocity, Width, Height, Num(minZ), Num(Far)),
                write |-> NoWrite]

\* star.update(deltaTime) of the frame
Star3DUpdate ==
    /\ fx.kind = "Star3D"
    /\ fx.pc \in {"created", "rendered"}
    /\ nops < MaxStarCycles
    /\ \E deltaTime \in DeltaTimes : \E s \in Star3D_update(fx.star, deltaTime) :
          fx' = [fx EXCEPT !.star = s, !.pc = "updated"]
    /\ UNCHANGED <<revision, color, blitter, shadow, last, nops>>
    /\ UNCHANGED <<enginePc, effect, image, initialized, running, elapsedTime,
                   lastTimestamp, clock, queued, listening, frame>>

\* star.project(blitter.clipping) of the frame
Star3DProject ==
    /\ fx.kind = "Star3D"
    /\ fx.pc = "updated"
    /\ \E s \in Star3D_project(fx.star, blitter.clipping) :
          fx' = [fx EXCEPT !.star = s, !.pc = "projected"]
    /\ UNCHANGED <<revision, color, blitter, shadow, last, nops>>
    /\ UNCHANGED <<enginePc, effect, image, initialized, running, elapsedTime,
                   lastTimestamp, clock, queued, listening, frame>>

\* star.render(blitter) of the frame
Star3DRender ==
    /\ fx.kind = "Star3D"
    /\ fx.pc = "projected"
    /\ LET r == Star3D_render(revision, blitter, fx.star, color)
       IN  /\ blitter' = [blitter EXCEPT !.backbuffer32 = r.buf]
           /\ color' = r.color
    /\ fx' = [fx EXCEPT !.pc = "rendered",
                        !.write = [x |-> fx.star.x[1], y |-> fx.star.y[1], wrote |-> TRUE]]
    /\ last' = [NoCall EXCEPT !.op = "render", !.before = blitter.backbuffer32]
    /\ shadow' = [i \in DOMAIN shadow |-> None]
    /\ nops' = nops + 1
    /\ UNCHANGED revision
    /\ UNCHANGED <<enginePc, effect, image, initialized, running, elapsedTime,
                   lastTimestamp, clock, queued, listening, frame>>

\* render(blitter, elapsedTime, deltaTime) of 14stars3d/effect.ts with one star
Stars3DRender ==
    /\ fx.kind = "inline"
    /\ nops < MaxStarCycles
    /\ LET cleared == [blitter EXCEPT
                          !.backbuffer32 = clear(revision, blitter, Color4_black(revision)).buf]
           moved == Particle_update(fx.particle, fx.star)
       IN  \E s \in (IF moved.position.z <= Num(minZ) THEN Inline_reset(moved) ELSE {moved}) :
              LET num == s.position.x * s.width + s.width * s.position.z
                  den == 2 * s.position.z
                  numY == s.position.y * s.height + s.height * s.position.z
                  outside == \/ num < 0
                             \/ num >= s.width * den
                             \/ numY < 0
                             \/ numY >= s.height * den
                  shade == Num(255) - s.position.z
                  r == Blitter_setPixel(revision, cleared, Num(num \div den), Num(numY \div den),
                                        [color EXCEPT !.red = shade, !.green = shade,
                                                      !.blue = shade], FALSE)
              IN  IF outside
                  THEN /\ \E t \in Inline_reset(s) :
                             fx' = [fx EXCEPT !.star = t, !.pc = "skipped", !.write = NoWrite]
                       /\ blitter' = cleared
                       /\ color' = color
                  ELSE /\ fx' = [fx EXCEPT !.star = s, !.pc = "rendered",
                                           !.write = [x |-> num \div den, y |-> numY \div den,
                                                      wrote |-> TRUE]]
                       /\ blitter' = [cleared EXCEPT !.backbuffer32 = r.buf]
                       /\ color' = r.color
    /\ last' = [NoCall EXCEPT !.op = "render",
                   !.before = clear(revision, blitter, Color4_black(revision)).buf]
    /\ shadow' = [i \in DOMAIN shadow |-> None]
    /\ nops' = nops + 1
    /\ UNCHANGED revision
    /\ UNCHANGED <<enginePc, effect, image, initialized, running, elapsedTime,
                   lastTimestamp, clock, queued, listening, frame>>

Star3DNext ==
    \/ Star3DUpdate
    \/ Star3DProject
    \/ Star3DRender
    \/ Stars3DRender

SpecStar3D == Star3DInit /\ [][Star3DNext]_vars

(***************************************************************************)
(* Claims about the 3D star field                                          *)
(***************************************************************************)
\* the buffer differs from the one before the render at most at the entry of (x, y)
WroteOnlyAt(x, y) ==
    \A i \in DOMAIN blitter.backbuffer32 :
        i # y * blitter.width + x => blitter.backbuffer32[i] = last.before[i]

\* C11: once Star3D.project has returned, the projected coordinates lie
\* inside the clipping region (minX <= x < maxX, minY <= y < maxY), and a
\* render writes no pixel other than the one at coordinates inside the buffer
C11_ProjectedInsideScreen ==
    /\ (fx.kind = "Star3D" /\ fx.pc \in {"projected", "rendered"}) =>
          ~OutsideClipping(blitter.clipping, fx.star.x[1], fx.star.y[1])
    /\ (fx.kind \in {"Star3D", "inline"} /\ fx.write.wrote) =>
          /\ ~OutsideClipping(blitter.clipping, fx.write.x, fx.write.y)
          /\ WroteOnlyAt(fx.write.x, fx.write.y)

(***************************************************************************)
(* Clipping.inside and Clipping.outside asked about one point              *)
(***************************************************************************)
\* the clipping of the canvas, and one that starts off the origin
Clippings == {Clipping(0, 0, Width, Height), Clipping(1, 1, Width, Width)}

\* coordinates from one below the least bound to one above the greatest,
\* whole and fractional
PointCoordinates(max) == (0 - Num(1))..Num(max + 1)

ClippingInit ==
    /\ revision = 2
    /\ color = Color4(revision, NoParams)
    /\ blitter = NoBlitter
    /\ shadow = [i \in DOMAIN NoBlitter.backbuffer32 |-> None]
    /\ last = NoCall
    /\ nops = 0
    /\ LoaderIdle
    /\ \E c \in Clippings :
          fx = [kind |-> "clipping", pc |-> "created", clipping |-> c, x |-> 0, y |-> 0,
                inside |-> FALSE, outside |-> FALSE]

\* clipping.inside(x, y) and clipping.outside(x, y) for one point
ClippingQuery ==
    /\ fx.kind = "clipping"
    /\ \E x \in PointCoordinates(Width), y \in PointCoordinates(Width) :
          fx' = [fx EXCEPT !.pc = "queried", !.x = x, !.y = y,
                           !.inside = Clipping_inside(fx.clipping, x, y),
                           !.outside = Clipping_outside(fx.clipping, x, y)]
    /\ UNCHANGED <<revision, color, blitter, shadow, last, nops>>
    /\ UNCHANGED <<enginePc, effect, image, initialized, running, elapsedTime,
                   lastTimestamp, clock, queued, listening, frame>>

ClippingNext == ClippingQuery

SpecClipping == ClippingInit /\ [][ClippingNext]_vars

\* the point asked about lies on the right or the bottom edge of the region
OnMaxEdge ==
    /\ Num(fx.clipping.minX) <= fx.x /\ fx.x <= Num(fx.clipping.maxX)
    /\ Num(fx.clipping.minY) <= fx.y /\ fx.y <= Num(fx.clipping.maxY)
    /\ (fx.x = Num(fx.clipping.maxX) \/ fx.y = Num(fx.clipping.maxY))

\* C12: a point that is not outside is inside, and inside and outside are
\* both true exactly for the points of the region with x = maxX or y = maxY
C12_InsideOutsideOverlap ==
    (fx.kind = "clipping" /\ fx.pc = "queried") =>
        /\ (~fx.outside => fx.inside)
        /\ ((fx.inside /\ fx.outside) <=> OnMaxEdge)

\* a point on the right edge, strictly between the top and the bottom
C12_Witness ==
    /\ fx.kind = "clipping" /\ fx.pc = "queried"
    /\ fx.x = Num(fx.clipping.maxX)
    /\ fx.y > Num(fx.clipping.minY) /\ fx.y < Num(fx.clipping.maxY)
    /\ fx.inside /\ fx.outside

(***************************************************************************)
(* LissajousCurve: the closed form (time kept in [0, 2 pi)) and the table  *)
(* of precomputed points.  Angles and times are counted in eighths of a    *)
(* revolution, cosines in thousandths, the scale in tenths and coordinates *)
(* in 1/20000 pixel.                                                       *)
(***************************************************************************)
MaxUpdates == 3

\* Math.PI * 2 in the unit of angle
TWOPI == 8

CosTable == <<1000, 707, 0, -707, -1000, -707, 0, 707>>

MathCos(k) == CosTable[(k % TWOPI) + 1]

MathSin(k) == MathCos(k - TWOPI \div 4)

\* the % of JavaScript: the result has the sign of the dividend
JsRemainder(a, b) == IF a >= 0 THEN a % b ELSE 0 - ((0 - a) % b)

\* a centre left at the origin
Lissajous_center_origin(width, height) == [x |-> 0, y |-> 0]

\* center and dimensions of the constructors, doubled; the dimensions carry
\* the tenths of the scale
Lissajous_center(width, height) == [x |-> width, y |-> height]

Lissajous_dimensions(width, height, uniform, scale) ==
    IF uniform
    THEN [x |-> MathMin(width, height) * scale, y |-> MathMin(width, height) * scale]
    ELSE [x |-> width * scale, y |-> height * scale]

\* cos * dimensions + center for both axes
Lissajous_point(cx, cy, dimensions, center) ==
    [x |-> cx * dimensions.x + 10000 * center.x, y |-> cy * dimensions.y + 10000 * center.y]

\* new LissajousCurve({a, b, delta, step, width, height, uniform, scale}); the
\* closed form takes no step and has no track
LissajousCurve(kind, a, b, delta, step, width, height, uniform, scale) ==
    LET center == Lissajous_center(width, height)
        dimensions == Lissajous_dimensions(width, height, uniform, scale)
    IN  [kind |-> kind, a |-> a, b |-> b, delta |-> delta, step |-> step,
         center |-> center, dimensions |-> dimensions, time |-> 0,
         track |-> IF kind = "table"
                   THEN [i \in 0..(TWOPI \div step) |->
                            Lissajous_point(MathSin(a * (i * step) + delta),
                                            MathCos(b * (i * step)), dimensions, center)]
                   ELSE <<>>]

\* the wrap of a negative time that also moves time 0
Lissajous_wrap_inclusive(time) == IF time <= 0 THEN time + TWOPI ELSE time

\* if (this.time < 0) this.time += this.TWOPI
Lissajous_wrap(time) == IF time < 0 THEN time + TWOPI ELSE time

\* LissajousCurve.update(deltaTime, speed): the curve afterwards and the point
\* returned, None for the undefined an index outside the track gives
Lissajous_update(c, deltaTime, speed) ==
    IF c.kind = "table"
    THEN LET time == c.time + deltaTime * speed
             index == JsRemainder(time, TWOPI) \div c.step
         IN  [curve |-> [c EXCEPT !.time = time],
              ret |-> IF index \in DOMAIN c.track THEN Some(c.track[index]) ELSE None]
    ELSE LET time == Lissajous_wrap(JsRemainder(c.time + deltaTime * speed, TWOPI))
         IN  [curve |-> [c EXCEPT !.time = time],
              ret |-> Some(Lissajous_point(MathCos(c.a * time + c.delta), MathCos(c.b * time),
                                           c.dimensions, c.center))]

Speeds == {0 - 1, 1, 3}

LissajousInit ==
    /\ revision = 2
    /\ color = Color4(revision, NoParams)
    /\ blitter = NoBlitter
    /\ shadow = [i \in DOMAIN NoBlitter.backbuffer32 |-> None]
    /\ last = NoCall
    /\ nops = 0
    /\ LoaderIdle
    /\ \E kind \in {"closed", "table"}, a \in {1, 3}, uniform \in BOOLEAN :
          fx = [kind |-> "lissajous", calls |-> 0, deltaTime |-> 0, speed |-> 0,
                curve |-> LissajousCurve(kind, a, 3, TWOPI \div 4, 1, Width, Height, uniform, 10),
                timeBefore |-> 0, ret |-> None, retBefore |-> None]

\* curve.update(deltaTime, speed)
LissajousUpdate ==
    /\ fx.kind = "lissajous"
    /\ fx.calls < MaxUpdates
    /\ \E deltaTime \in DeltaTimes, speed \in Speeds :
          LET r == Lissajous_update(fx.curve, deltaTime, speed)
          IN  fx' = [fx EXCEPT !.calls = @ + 1, !.deltaTime = deltaTime, !.speed = speed,
                               !.curve = r.curve, !.timeBefore = fx.curve.time,
                               !.ret = r.ret, !.retBefore = fx.ret]
    /\ UNCHANGED <<revision, color, blitter, shadow, last, nops>>
    /\ UNCHANGED <<enginePc, effect, image, initialized, running, elapsedTime,
                   lastTimestamp, clock, queued, listening, frame>>

LissajousNext == LissajousUpdate

SpecLissajous == LissajousInit /\ [][LissajousNext]_vars

\* C13: an update with deltaTime = 0 leaves the accumulated time as it was
\* and returns the point the call before it returned
C13_ZeroDeltaIdempotent ==
    (fx.kind = "lissajous" /\ fx.calls >= 1 /\ fx.deltaTime = 0) =>
        /\ fx.curve.time = fx.timeBefore
        /\ (fx.calls >= 2 => fx.ret = fx.retBefore)

\* a zero update at an accumulated time other than 0, with a speed other than 0
C13_Witness ==
    /\ fx.kind = "lissajous" /\ fx.calls >= 2 /\ fx.deltaTime = 0 /\ fx.speed # 0
    /\ fx.curve.time # 0
    /\ fx.ret # None
    /\ fx.ret = fx.retBefore

(***************************************************************************)
(* 08zoombi: the zoom with bilinear sampling.  A fraction is the record    *)
(* [n, d] of its numerator and its positive denominator.                   *)
(***************************************************************************)
Fraction(n, d) == [n |-> n, d |-> d]

\* helper.ts lerp(start, end, t) = start * (1 - t) + end * t
lerp(start, end, t) ==
    Fraction(start.n * end.d * (t.d - t.n) + end.n * start.d * t.n, start.d * end.d * t.d)

\* Math.floor of a fraction, and what is left of it
MathFloor(r) == r.n \div r.d

FractionalPart(r) == Fraction(r.n % r.d, r.d)

\* (p - screenCenter) / zoom + imageCenter, both centres half the sizes
Zoom_imageCoordinate(p, screenSize, imageSize, zoom) ==
    Fraction((2 * p - screenSize) * zoom.d + imageSize * zoom.n, 2 * zoom.n)

\* const background = Color4.black.toAABBGGRR()
Zoom_background(rev) == toAABBGGRR(rev, Color4_black(rev)).ret

\* the three lerps of one channel, floored to the model's numbers
Bilinear_channel(ch, p00, p10, p01, p11, fracX, fracY) ==
    LET top == lerp(Fraction(p00[ch], 1), Fraction(p10[ch], 1), fracX)
        bottom == lerp(Fraction(p01[ch], 1), Fraction(p11[ch], 1), fracX)
    IN  MathFloor(lerp(top, bottom, fracY))

\* the colour object after the assignments of the three blended channels
Bilinear_blend(c, p00, p10, p01, p11, fracX, fracY) ==
    [c EXCEPT !.red = Bilinear_channel("red", p00, p10, p01, p11, fracX, fracY),
              !.green = Bilinear_channel("green", p00, p10, p01, p11, fracX, fracY),
              !.blue = Bilinear_channel("blue", p00, p10, p01, p11, fracX, fracY)]

\* the body of render's inner loop for the destination pixel (x, y): the word
\* written, the colour object afterwards, and whether the background was taken
Bilinear_pixel(rev, b, bitmap, c, x, y, zoom) ==
    LET imageX == Zoom_imageCoordinate(x, b.clipping.maxX, bitmap.width, zoom)
        imageY == Zoom_imageCoordinate(y, b.clipping.maxY, bitmap.height, zoom)
        floorX == MathFloor(imageX)
        floorY == MathFloor(imageY)
        p00 == Blitter_getPixel(rev, [b EXCEPT !.backbuffer32 = bitmap.data],
                                Num(floorX), Num(floorY), TRUE)
        p10 == Blitter_getPixel(rev, [b EXCEPT !.backbuffer32 = bitmap.data],
                                Num(floorX + 1), Num(floorY), TRUE)
        p01 == Blitter_getPixel(rev, [b EXCEPT !.backbuffer32 = bitmap.data],
                                Num(floorX), Num(floorY + 1), TRUE)
        p11 == Blitter_getPixel(rev, [b EXCEPT !.backbuffer32 = bitmap.data],
                                Num(floorX + 1), Num(floorY + 1), TRUE)
    IN  IF p00 # None /\ p10 # None /\ p01 # None /\ p11 # None
        THEN LET blended == Bilinear_blend(c, p00[1], p10[1], p01[1], p11[1],
                                           FractionalPart(imageX), FractionalPart(imageY))
             IN  [word |-> toAABBGGRR(rev, blended).ret, color |-> toAABBGGRR(rev, blended).obj,
                  fallback |-> FALSE]
        ELSE [word |-> Zoom_background(rev), color |-> c, fallback |-> TRUE]

\* the colour object after the pixels 0..(k - 1) of the frame
RECURSIVE Bilinear_colorAfter(_, _, _, _, _, _)
Bilinear_colorAfter(rev, b, bitmap, c, zoom, k) ==
    IF k = 0 THEN c
    ELSE Bilinear_pixel(rev, b, bitmap,
                        Bilinear_colorAfter(rev, b, bitmap, c, zoom, k - 1),
                        (k - 1) % b.clipping.maxX, (k - 1) \div b.clipping.maxX, zoom).color

\* render(blitter, elapsedTime) at the zoom factor elapsedTime gives
Bilinear_render(rev, b, bitmap, c, zoom) ==
    LET n == b.clipping.maxX * b.clipping.maxY
        pixel(k) == Bilinear_pixel(rev, b, bitmap,
                                   Bilinear_colorAfter(rev, b, bitmap, c, zoom, k),
                                   k % b.clipping.maxX, k \div b.clipping.maxX, zoom)
    IN  [buf |-> [k \in DOMAIN b.backbuffer32 |->
                     IF k < n THEN ToUint32(pixel(k).word) ELSE b.backbuffer32[k]],
         color |-> Bilinear_colorAfter(rev, b, bitmap, c, zoom, n),
         fallback |-> [k \in 0..(n - 1) |-> pixel(k).fallback]]

\* minZoom = 0.5 to maxZoom = 8.0 in steps of one half
Zooms == {Fraction(k, 2) : k \in 1..16}

\* images smaller than, as large as and larger than the canvas
ZoomImages == {Image(w, h) : w \in 1..(Width + 1), h \in 1..(Height + 1)}

\* the module after initialize() has run to its end: the image is loaded
ZoomInit ==
    /\ revision = 2
    /\ color = Color4(revision, [NoParams EXCEPT !.caching = Some(FALSE)])
    /\ blitter = create(Num(Width), Num(Height), Color4_white(revision))
    /\ shadow = [i \in 0..(Width * Height - 1) |-> None]
    /\ last = [NoCall EXCEPT !.op = "create"]
    /\ nops = 0
    /\ enginePc = "idle"
    /\ effect = "08zoombi"
    /\ \E bitmap \in ZoomImages : image = [state |-> "loaded", bitmap |-> bitmap]
    /\ initialized = "resolved"
    /\ running = FALSE
    /\ elapsedTime = 0
    /\ lastTimestamp = 0
    /\ clock = 0
    /\ queued = FALSE
    /\ listening = FALSE
    /\ frame = NoFrame
    /\ fx = [kind |-> "zoombi", pc |-> "initialized", zoom |-> Fraction(1, 1),
             fallback |-> [k \in 0..(Width * Height - 1) |-> FALSE]]

\* render(blitter, elapsedTime)
ZoomRender ==
    /\ fx.kind = "zoombi"
    /\ fx.pc = "initialized"
    /\ \E zoom \in Zooms :
          LET r == Bilinear_render(revision, blitter, image.bitmap, color, zoom)
          IN  /\ blitter' = [blitter EXCEPT !.backbuffer32 = r.buf]
              /\ color' = r.color
              /\ fx' = [fx EXCEPT !.pc = "rendered", !.zoom = zoom, !.fallback = r.fallback]
    /\ last' = [NoCall EXCEPT !.op = "render", !.before = blitter.backbuffer32]
    /\ shadow' = [i \in DOMAIN shadow |-> None]
    /\ nops' = nops + 1
    /\ UNCHANGED <<revision, enginePc, effect, image, initialized, running, elapsedTime,
                   lastTimestamp, clock, queued, listening, frame>>

ZoomNext == ZoomRender

SpecZoom == ZoomInit /\ [][ZoomNext]_vars

(***************************************************************************)
(* Claims about the bilinear zoom                                          *)
(***************************************************************************)
\* the image coordinates the destination pixel k maps to
ImageXOf(k) ==
    Zoom_imageCoordinate(k % blitter.width, blitter.width, image.bitmap.width, fx.zoom)

ImageYOf(k) ==
    Zoom_imageCoordinate(k \div blitter.width, blitter.height, image.bitmap.height, fx.zoom)

InImage(x, y) == x >= 0 /\ x < image.bitmap.width /\ y >= 0 /\ y < image.bitmap.height

\* the image's pixel at (x, y), by the image's own row stride
ImagePixel(x, y) == image.bitmap.data[y * image.bitmap.width + x]

\* C14: a destination pixel that maps to a whole image coordinate inside the
\* image receives the image's pixel at that coordinate (stated for an image
\* as large as the canvas)
C14_IntegerCoordinateIsNearest ==
    (fx.kind = "zoombi" /\ fx.pc = "rendered"
        /\ image.bitmap.width = blitter.width /\ image.bitmap.height = blitter.height) =>
        \A k \in DOMAIN blitter.backbuffer32 :
            (/\ FractionalPart(ImageXOf(k)).n = 0
             /\ FractionalPart(ImageYOf(k)).n = 0
             /\ InImage(MathFloor(ImageXOf(k)), MathFloor(ImageYOf(k)))) =>
                blitter.backbuffer32[k] = ImagePixel(MathFloor(ImageXOf(k)), MathFloor(ImageYOf(k)))

\* the blend of the four neighbours of (x, y) read by the image's own stride
BlendByImageStride(k) ==
    LET x == MathFloor(ImageXOf(k))
        y == MathFloor(ImageYOf(k))
        sample(u, v) == fromAABBGGRR(revision, Color4(revision, NoParams), ImagePixel(u, v))
    IN  getAABBGGRR(Bilinear_blend(color, sample(x, y), sample(x + 1, y), sample(x, y + 1),
                                   sample(x + 1, y + 1), FractionalPart(ImageXOf(k)),
                                   FractionalPart(ImageYOf(k))))

\* C15: a destination pixel receives the background exactly when one of its
\* four neighbours lies outside the image, and otherwise the blend of the four
\* neighbours read with the image's width as row stride
C15_NeighboursByImageBounds ==
    (fx.kind = "zoombi" /\ fx.pc = "rendered") =>
        \A k \in DOMAIN blitter.backbuffer32 :
            LET x == MathFloor(ImageXOf(k))
                y == MathFloor(ImageYOf(k))
                allInside == InImage(x, y) /\ InImage(x + 1, y + 1)
            IN  /\ fx.fallback[k] <=> ~allInside
                /\ allInside => blitter.backbuffer32[k] = BlendByImageStride(k)

(***************************************************************************)
(* 10fire: the fire buffer, its seeding, its propagation and its palette   *)
(***************************************************************************)
MaxFireSteps == 3

\* a store that rounds towards minus infinity before it wraps
ToUint8_floor(num, den) == (num \div den) % 256

\* the conversion a Uint8Array applies to the stored value num / den:
\* truncation towards zero, then modulo 256
ToUint8(num, den) ==
    (IF num >= 0 THEN num \div den ELSE 0 - ((0 - num) \div den)) % 256

\* the sum taken as it is, without cooling
Fire_cooled_none(value) == value

\* value - 1: "slightly reduced for cooling"
Fire_cooled(value) == value - 1

\* the value the propagation stores at pointer; a read outside the buffer is
\* undefined, the sum is NaN then and the store gives 0
Fire_cell(fire, width, pointer) ==
    IF pointer + width + width \in DOMAIN fire
    THEN ToUint8(Fire_cooled(fire[pointer + width] + fire[pointer + width - 1]
                             + fire[pointer + width + 1] + fire[pointer + width + width]), 4)
    ELSE 0

\* the propagation loop from pointer on, in place
RECURSIVE Fire_propagateFrom(_, _, _, _)
Fire_propagateFrom(fire, width, height, pointer) ==
    IF pointer >= width * (height - 1) THEN fire
    ELSE Fire_propagateFrom([fire EXCEPT ![pointer] = Fire_cell(fire, width, pointer)],
                            width, height, pointer + 1)

Fire_propagate(fire, width, height) == Fire_propagateFrom(fire, width, height, 0)

\* the two source rows filled with the values Math.random() chose
Fire_seed(fire, width, height, chosen) ==
    [k \in DOMAIN fire |-> IF k >= width * (height - 2) THEN chosen[k] ELSE fire[k]]

\* palette[i]
Fire_palette(rev, k) ==
    toAABBGGRR(rev, Color4(rev, [alpha |-> None,
                                 red |-> Some(Num(MathMin(255, k * 2))),
                                 green |-> Some(Num(MathMin(255, MathMax(0, k - 32)))),
                                 blue |-> Some(Num(MathMin(255, MathMax(0, k - 128)))),
                                 caching |-> None])).ret

\* the last loop of render: the back buffer afterwards
Fire_blit(rev, b, fire) ==
    [k \in DOMAIN b.backbuffer32 |->
        IF k < b.clipping.maxX * b.clipping.maxY THEN Fire_palette(rev, fire[k])
        ELSE b.backbuffer32[k]]

\* outcomes of Math.random() < 0.5 ? 255 : 127 over the source rows: all
\* high, all low, and the two alternations
SeedChoices ==
    {[k \in 0..(Width * (Height + 2) - 1) |-> 255],
     [k \in 0..(Width * (Height + 2) - 1) |-> 127],
     [k \in 0..(Width * (Height + 2) - 1) |-> IF k % 2 = 0 THEN 255 ELSE 127],
     [k \in 0..(Width * (Height + 2) - 1) |-> IF k % 2 = 0 THEN 127 ELSE 255]}

\* the module after initialize(blitter): a zeroed buffer two rows higher than the canvas
FireInit ==
    /\ revision = 2
    /\ color = Color4(revision, NoParams)
    /\ blitter = create(Num(Width), Num(Height), Color4_white(revision))
    /\ shadow = [i \in 0..(Width * Height - 1) |-> None]
    /\ last = [NoCall EXCEPT !.op = "create"]
    /\ nops = 0
    /\ LoaderIdle
    /\ fx = [kind |-> "fire", pc |-> "initialized", width |-> Width, height |-> Height + 2,
             fire |-> [k \in 0..(Width * (Height + 2) - 1) |-> 0],
             before |-> [k \in 0..(Width * (Height + 2) - 1) |-> 0]]

\* render(blitter, elapsedTime): seeding, propagation and palette lookup
FireRender ==
    /\ fx.kind = "fire"
    /\ nops < MaxFireSteps
    /\ \E chosen \in SeedChoices :
          LET seeded == Fire_seed(fx.fire, fx.width, fx.height, chosen)
              burnt == Fire_propagate(seeded, fx.width, fx.height)
          IN  /\ fx' = [fx EXCEPT !.pc = "rendered", !.fire = burnt, !.before = seeded]
              /\ blitter' = [blitter EXCEPT !.backbuffer32 = Fire_blit(revision, blitter, burnt)]
    /\ last' = [NoCall EXCEPT !.op = "render", !.before = blitter.backbuffer32]
    /\ shadow' = [i \in DOMAIN shadow |-> None]
    /\ nops' = nops + 1
    /\ UNCHANGED <<revision, color>>
    /\ UNCHANGED <<enginePc, effect, image, initialized, running, elapsedTime,
                   lastTimestamp, clock, queued, listening, frame>>

\* the propagation loop of render applied to the buffer as it stands
FirePropagate ==
    /\ fx.kind = "fire"
    /\ nops < MaxFireSteps
    /\ fx' = [fx EXCEPT !.pc = "propagated", !.before = fx.fire,
                        !.fire = Fire_propagate(fx.fire, fx.width, fx.height)]
    /\ nops' = nops + 1
    /\ UNCHANGED <<revision, color, blitter, shadow, last>>
    /\ UNCHANGED <<enginePc, effect, image, initialized, running, elapsedTime,
                   lastTimestamp, clock, queued, listening, frame>>

FireNext ==
    \/ FireRender
    \/ FirePropagate

SpecFire == FireInit /\ [][FireNext]_vars

(***************************************************************************)
(* Claims about the fire propagation                                       *)
(***************************************************************************)
FireStepped == fx.kind = "fire" /\ fx.pc \in {"rendered", "propagated"}

\* the cells the propagation loop stores to
FireUpdated == 0..(fx.width * (fx.height - 1) - 1)

\* the sum of the four cells the loop reads for the cell at pointer, before the step
FireSumBefore(pointer) ==
    fx.before[pointer + fx.width - 1] + fx.before[pointer + fx.width]
    + fx.before[pointer + fx.width + 1] + fx.before[pointer + fx.width + fx.width]

\* the cell at pointer has a left and a right neighbour in the row below and
\* a cell two rows below
FireInterior(pointer) ==
    /\ pointer % fx.width > 0
    /\ pointer % fx.width < fx.width - 1
    /\ pointer + fx.width + fx.width \in DOMAIN fx.fire

\* C16 as stated: each updated cell is the sum of below-left, below,
\* below-right and two-below, before the step, divided by 4 and truncated,
\* and lies in 0..255
C16_AsStated ==
    FireStepped =>
        \A pointer \in FireUpdated :
            /\ fx.fire[pointer] \in 0..255
            /\ FireInterior(pointer) => fx.fire[pointer] = FireSumBefore(pointer) \div 4

\* C16 amended: each updated cell that has a cell two rows below is the sum of
\* the cells at pointer + width - 1, pointer + width, pointer + width + 1 and
\* pointer + 2 * width, before the step, less 1, divided by 4 and truncated
\* towards zero; an updated cell without a cell two rows below is 0; every
\* cell lies in 0..255 and the last row is left as it was
C16_CooledAverage ==
    FireStepped =>
        /\ \A pointer \in FireUpdated :
              /\ fx.fire[pointer] \in 0..255
              /\ fx.fire[pointer] =
                    IF pointer + fx.width + fx.width \notin DOMAIN fx.fire THEN 0
                    ELSE IF FireSumBefore(pointer) = 0 THEN 0
                    ELSE (FireSumBefore(pointer) - 1) \div 4
        /\ \A k \in DOMAIN fx.fire \ FireUpdated : fx.fire[k] = fx.before[k]

\* a cell whose four sources add up to a positive multiple of 4
C16_Witness ==
    /\ FireStepped
    /\ \E pointer \in FireUpdated :
          /\ FireInterior(pointer)
          /\ FireSumBefore(pointer) > 0
          /\ FireSumBefore(pointer) % 4 = 0
          /\ fx.fire[pointer] = (FireSumBefore(pointer) - 1) \div 4

\* C17: propagation of a buffer that is 0 everywhere leaves it 0 everywhere
C17_ZeroStaysZero ==
    (fx.kind = "fire" /\ fx.pc = "propagated" /\ \A k \in DOMAIN fx.before : fx.before[k] = 0) =>
        \A k \in DOMAIN fx.fire : fx.fire[k] = 0

\* the propagation has run on the all-zero buffer
C17_Witness ==
    /\ fx.kind = "fire" /\ fx.pc = "propagated"
    /\ \A k \in DOMAIN fx.before : fx.before[k] = 0
    /\ \A k \in DOMAIN fx.fire : fx.fire[k] = 0

(***************************************************************************)
(* 13stars2d: the Star2D class and the effect's constants.  deltaTime is a *)
(* fraction of a second.                                                   *)
(***************************************************************************)
Stars2D_slowest == 1

Stars2D_fastest == 5

Stars2D_speed == 60

\* new Star2D(position, velocity, color, width, height, slowest, fastest, speed);
\* the colour is the object the variable color holds
Star2D(position, velocity, width, height, slowest, fastest, speed) ==
    [position |-> position, velocity |-> velocity, width |-> width, height |-> height,
     slowest |-> slowest, fastest |-> fastest, speed |-> speed]

\* an exit test that lets the star rest on the right edge
Star2D_exits_strict(s) == s.position.x > Num(s.width)

\* this.position.x >= this.width
Star2D_exits(s) == s.position.x >= Num(s.width)

\* velocity.clone().scale(deltaTime)
Vector3_scale(v, deltaTime) ==
    Vector3((v.x * deltaTime.n) \div deltaTime.d, (v.y * deltaTime.n) \div deltaTime.d,
            (v.z * deltaTime.n) \div deltaTime.d)

Vector3_add(v, other) == Vector3(v.x + other.x, v.y + other.y, v.z + other.z)

\* Star2D.update(deltaTime): the stars it can leave
Star2D_update(s, deltaTime) ==
    LET moved == [s EXCEPT !.position = Vector3_add(@, Vector3_scale(s.velocity, deltaTime))]
    IN  IF Star2D_exits(moved)
        THEN {[moved EXCEPT !.position.x = 0, !.position.y = py, !.velocity.x = vx * s.speed] :
                 py \in randomRange(0, Num(s.height), 1),
                 vx \in randomRange(Num(s.slowest), Num(s.fastest), 1)}
        ELSE {moved}

\* Star2D.render(blitter): the buffer and the colour object afterwards
Star2D_render(rev, b, s, c) == Blitter_setPixel(rev, b, s.position.x, s.position.y, c, FALSE)

\* no time, one and two sixtieths of a second
DeltaFractions == {Fraction(n, 60) : n \in 0..2}

\* the module after initialize(blitter), with one star
Star2DInit ==
    /\ revision = 2
    /\ \E shade \in randomRange(Num(128), Num(255), 1) :
          color = Color4(revision, [NoParams EXCEPT !.red = Some(shade), !.green = Some(shade),
                                                    !.blue = Some(shade)])
    /\ blitter = create(Num(Width), Num(Height), Color4_white(revision))
    /\ shadow = [i \in 0..(Width * Height - 1) |-> None]
    /\ last = [NoCall EXCEPT !.op = "create"]
    /\ nops = 0
    /\ LoaderIdle
    /\ \E px \in randomRange(0, Num(Width), 1), py \in randomRange(0, Num(Height), 1),
          vx \in randomRange(Num(Stars2D_slowest), Num(Stars2D_fastest), 1) :
          fx = [kind |-> "star2d", pc |-> "created", deltaTime |-> Fraction(0, 60),
                star |-> Star2D(Vector3(px, py, 0), Vector3(vx * Stars2D_speed, 0, 0),
                                Width, Height, Stars2D_slowest, Stars2D_fastest, Stars2D_speed),
                before |-> Star2D(Vector3(px, py, 0), Vector3(vx * Stars2D_speed, 0, 0),
                                  Width, Height, Stars2D_slowest, Stars2D_fastest,
                                  Stars2D_speed),
                colorBefore |-> color]

\* star.update(deltaTime)
Star2DUpdate ==
    /\ fx.kind = "star2d"
    /\ nops < MaxUpdates
    /\ \E deltaTime \in DeltaFractions : \E s \in Star2D_update(fx.star, deltaTime) :
          fx' = [fx EXCEPT !.pc = "updated", !.deltaTime = deltaTime, !.star = s,
                           !.before = fx.star, !.colorBefore = color]
    /\ nops' = nops + 1
    /\ UNCHANGED <<revision, color, blitter, shadow, last>>
    /\ UNCHANGED <<enginePc, effect, image, initialized, running, elapsedTime,
                   lastTimestamp, clock, queued, listening, frame>>

\* star.render(blitter)
Star2DRender ==
    /\ fx.kind = "star2d"
    /\ fx.pc = "updated"
    /\ LET r == Star2D_render(revision, blitter, fx.star, color)
       IN  /\ blitter' = [blitter EXCEPT !.backbuffer32 = r.buf]
           /\ color' = r.color
    /\ fx' = [fx EXCEPT !.pc = "rendered"]
    /\ last' = [NoCall EXCEPT !.op = "render", !.before = blitter.backbuffer32]
    /\ shadow' = [i \in DOMAIN shadow |-> None]
    /\ UNCHANGED <<revision, nops>>
    /\ UNCHANGED <<enginePc, effect, image, initialized, running, elapsedTime,
                   lastTimestamp, clock, queued, listening, frame>>

Star2DNext ==
    \/ Star2DUpdate
    \/ Star2DRender

SpecStar2D == Star2DInit /\ [][Star2DNext]_vars

\* the update would carry the star to or past the right edge
Star2DWouldExit ==
    fx.before.position.x + (fx.before.velocity.x * fx.deltaTime.n) \div fx.deltaTime.d
        >= Num(fx.before.width)

\* C18: a 2D star stays within 0 <= x < width and 0 <= y < height; an update
\* that would move it to x >= width sets x = 0 and draws y in [0, height) and
\* velocity.x in [slowest * speed, fastest * speed); no update changes the colour
C18_Star2DStaysOnScreen ==
    fx.kind = "star2d" =>
        /\ 0 <= fx.star.position.x /\ fx.star.position.x < Num(fx.star.width)
        /\ 0 <= fx.star.position.y /\ fx.star.position.y < Num(fx.star.height)
        /\ (fx.pc = "updated" /\ Star2DWouldExit) =>
              /\ fx.star.position.x = 0
              /\ fx.star.velocity.x >= Num(fx.star.slowest) * fx.star.speed
              /\ fx.star.velocity.x < Num(fx.star.fastest) * fx.star.speed
        /\ fx.pc = "updated" => color = fx.colorBefore

\* an update wrapped a star that had left the left edge
C18_Witness ==
    /\ fx.kind = "star2d" /\ fx.pc = "updated"
    /\ Star2DWouldExit
    /\ fx.before.position.x > 0
    /\ fx.deltaTime.n > 0
    /\ fx.star.position.x = 0

(***************************************************************************)
(* 16bumpimage: realtime bump mapping.  The light's position is taken in   *)
(* twentieths of a pixel; the brightness is kept by its whole part, which  *)
(* is all that toAABBGGRR packs.                                           *)
(***************************************************************************)
BumpSize == 4

\* the whole part of n / (2 * sqrt(l)) for l > 0, as far as the clamp to
\* 0..255 of 64 + n / (2 * sqrt(l)) can tell it
FloorOverRoot(n, l) ==
    IF n >= 0
    THEN LET q == (n * n) \div (4 * l)
         IN  CHOOSE m \in 0..192 : m * m <= q /\ (m = 192 \/ (m + 1) * (m + 1) > q)
    ELSE IF 65 * 65 * 4 * l < n * n THEN 0 - 66
         ELSE 0 - (CHOOSE m \in 0..65 : /\ m * m * 4 * l >= n * n
                                        /\ (m = 0 \/ (m - 1) * (m - 1) * 4 * l < n * n))

\* brightness = max(0, min(255, intensity * 1.5 + 64)) for the height
\* differences dx, dy and the light vector (lx, ly): 0 / 0 is NaN, and
\* Math.min and Math.max hand NaN on
Bump_brightness(dx, dy, lx, ly) ==
    IF lx * lx + ly * ly = 0 THEN NaN
    ELSE Num(MathMax(0, MathMin(255,
             64 + FloorOverRoot(0 - 3 * (dx * lx + dy * ly), lx * lx + ly * ly))))

\* the light's position in twentieths of a pixel
Bump_path(point) == [x |-> point.x \div 1000, y |-> point.y \div 1000]

\* the brightness renderRealtime's inner loop computes for the pixel at index
Bump_light(heightMap, width, path, index) ==
    LET x == index % width
        y == index \div width
        dx == heightMap[index + 1] - heightMap[index - 1]
        dy == heightMap[index + width] - heightMap[index - width]
        lx == path.x - 20 * x
        ly == path.y - 20 * y
    IN  [brightness |-> Bump_brightness(dx, dy, lx, ly), length0 |-> (lx * lx + ly * ly = 0)]

\* the body of renderRealtime's inner loop for the pixel at index
Bump_pixel(rev, c, heightMap, width, path, index) ==
    LET brightness == Bump_light(heightMap, width, path, index).brightness
        shaded == [c EXCEPT !.red = brightness, !.green = brightness, !.blue = brightness]
        packed == toAABBGGRR(rev, shaded)
    IN  [word |-> packed.ret, color |-> packed.obj]

\* the pixels renderRealtime computes: all but the edge rows and columns
Bump_indices(width, height) ==
    {k \in 0..(width * height - 1) :
        /\ k % width >= 1 /\ k % width < width - 1
        /\ k \div width >= 1 /\ k \div width < height - 1}

\* renderRealtime(blitter, deltaTime) on the cleared buffer
Bump_renderRealtime(rev, b, c, heightMap, width, height, path, cleared) ==
    LET pixel(k) == Bump_pixel(rev, c, heightMap, width, path, k)
        inner == Bump_indices(width, height)
    IN  [buf |-> [k \in DOMAIN cleared |-> IF k \in inner THEN ToUint32(pixel(k).word)
                                           ELSE cleared[k]],
         color |-> IF inner = {} THEN c
                   ELSE pixel(CHOOSE k \in inner : \A u \in inner : u <= k).color,
         brightness |-> [k \in inner |-> Bump_light(heightMap, width, path, k).brightness],
         length0 |-> [k \in inner |-> Bump_light(heightMap, width, path, k).length0]]

MapSize == 4

phongMapSpecularExponent == 50

\* the whole part of the square root of n, for a root of at most `most`
RootUpTo(n, most) == CHOOSE r \in 0..most : r * r <= n /\ (r + 1) * (r + 1) > n

\* w * w * h * h * (1 - squared) for the map entry (x, y)
Map_unitRest(x, y, w, h) ==
    w * w * h * h - (2 * x - w) * (2 * x - w) * h * h - (2 * y - h) * (2 * y - h) * w * w

\* generateEnvironmentMap(map, width, height)
generateEnvironmentMap(w, h) ==
    [k \in 0..(w * h - 1) |->
        LET rest == Map_unitRest(k % w, k \div w, w, h)
        IN  IF rest < 0 THEN 0 ELSE RootUpTo(65025 * rest, 255 * w * h) \div (w * h)]

\* base to the power e, both in thousandths
RECURSIVE MathPow(_, _)
MathPow(base, e) == IF e = 0 THEN 1000 ELSE (base * MathPow(base, e - 1)) \div 1000

\* generatePhongMap(map, width, height, specularExponent): diffuse and
\* specular are taken in thousandths
generatePhongMap(w, h, specularExponent) ==
    [k \in 0..(w * h - 1) |->
        LET rest == Map_unitRest(k % w, k \div w, w, h)
            diffuse == RootUpTo(1000000 * rest, 1000 * w * h) \div (w * h)
            specular == MathPow((1000 * rest) \div (w * w * h * h), specularExponent \div 2)
        IN  IF rest < 0 THEN 0 ELSE MathMin(255, ((diffuse + specular) * 255) \div 1000)]

\* heightMap[i] - heightMap[j]: NaN when an index lies outside the map
Bump_difference(heightMap, i, j) ==
    IF i \notin DOMAIN heightMap \/ j \notin DOMAIN heightMap THEN NaN
    ELSE heightMap[i] - heightMap[j]

\* clamp(Math.floor(d + x), 0, 255), 255 being the last column of the map
Bump_mapCoordinate(d, x, size) == IF d = NaN THEN NaN ELSE clamp(d + x, 0, size - 1)

\* the top-left corner of the map on the canvas
Bump_corner(path, mapWidth, mapHeight) ==
    [x |-> (path.x - 10 * mapWidth) \div 20, y |-> (path.y - 10 * mapHeight) \div 20]

\* the canvas pixels renderWithMap shades: inside the canvas, under a
\* non-zero entry of the map
Bump_shaded(width, height, path, map, mapWidth, mapHeight) ==
    LET p == Bump_corner(path, mapWidth, mapHeight)
    IN  {k \in 0..(width * height - 1) :
            /\ (k % width) - p.x >= 0 /\ (k % width) - p.x < mapWidth
            /\ (k \div width) - p.y >= 0 /\ (k \div width) - p.y < mapHeight
            /\ map[((k \div width) - p.y) * mapWidth + ((k % width) - p.x)] # 0}

\* the indices of the height map the central differences at index read
Bump_reads(index, width) == {index + 1, index - 1, index + width, index - width}

\* the body of renderWithMap's inner loop for the canvas pixel at index
Bump_mapPixel(rev, c, heightMap, width, path, map, mapWidth, mapHeight, index) ==
    LET p == Bump_corner(path, mapWidth, mapHeight)
        x == (index % width) - p.x
        y == (index \div width) - p.y
        dx == Bump_difference(heightMap, index + 1, index - 1)
        dy == Bump_difference(heightMap, index + width, index - width)
        nx == Bump_mapCoordinate(dx, x, mapWidth)
        ny == Bump_mapCoordinate(dy, y, mapHeight)
        brightness == IF nx = NaN \/ ny = NaN THEN NaN ELSE Num(map[ny * mapWidth + nx])
        shaded == [c EXCEPT !.red = brightness, !.green = brightness, !.blue = brightness]
        packed == toAABBGGRR(rev, shaded)
    IN  [word |-> packed.ret, color |-> packed.obj]

\* renderWithMap(blitter, deltaTime, map, mapWidth, mapHeight) on the cleared buffer
Bump_renderWithMap(rev, b, c, heightMap, width, height, path, cleared, map, mapWidth, mapHeight) ==
    LET shaded == Bump_shaded(width, height, path, map, mapWidth, mapHeight)
        pixel(k) == Bump_mapPixel(rev, c, heightMap, width, path, map, mapWidth, mapHeight, k)
    IN  [buf |-> [k \in DOMAIN cleared |-> IF k \in shaded THEN ToUint32(pixel(k).word)
                                           ELSE cleared[k]],
         color |-> IF shaded = {} THEN c
                   ELSE pixel(CHOOSE k \in shaded : \A u \in shaded : u <= k).color,
         shaded |-> shaded,
         reads |-> UNION {Bump_reads(k, width) : k \in shaded}]

\* switchActiveVariant(event) of the bump map
Bump_switchActiveVariant(activeVariant, key) ==
    CASE key = "1" -> 1 [] key = "2" -> 2 [] key = "3" -> 3 [] OTHER -> activeVariant

BumpKeys == {"1", "2", "3", "4", "f"}

\* height maps initialize can derive from an image: flat, a ramp, ridges
HeightMaps ==
    {[k \in 0..(BumpSize * BumpSize - 1) |-> 0],
     [k \in 0..(BumpSize * BumpSize - 1) |-> 4 * k],
     [k \in 0..(BumpSize * BumpSize - 1) |-> 64 - 4 * k],
     [k \in 0..(BumpSize * BumpSize - 1) |-> (k % 3) * 30]}

\* the module after initialize(blitter) has run to its end
BumpInit ==
    /\ revision = 2
    /\ color = Color4(revision, [NoParams EXCEPT !.caching = Some(FALSE)])
    /\ blitter = create(Num(BumpSize), Num(BumpSize), Color4_white(revision))
    /\ shadow = [i \in 0..(BumpSize * BumpSize - 1) |-> None]
    /\ last = [NoCall EXCEPT !.op = "create"]
    /\ nops = 0
    /\ LoaderIdle
    /\ \E heightMap \in HeightMaps, kind \in {"closed", "table"} :
          fx = [kind |-> "bump", pc |-> "initialized", heightMap |-> heightMap,
                width |-> BumpSize, height |-> BumpSize,
                light |-> LissajousCurve(kind, 2, 3, TWOPI \div 4, 1, BumpSize, BumpSize,
                                         FALSE, 10),
                path |-> [x |-> 0, y |-> 0],
                brightness |-> [k \in Bump_indices(BumpSize, BumpSize) |-> 0],
                length0 |-> [k \in Bump_indices(BumpSize, BumpSize) |-> FALSE],
                activeVariant |-> 1, rendered |-> 1, key |-> "",
                environmentMap |-> generateEnvironmentMap(MapSize, MapSize),
                phongMap |-> generatePhongMap(MapSize, MapSize, phongMapSpecularExponent),
                shaded |-> {}, reads |-> {}, changed |-> FALSE,
                previous |-> Uint32Array(BumpSize * BumpSize)]

\* the keydown listener of the bump map
BumpKeydown ==
    /\ fx.kind = "bump"
    /\ \E key \in BumpKeys :
          fx' = [fx EXCEPT !.key = key,
                           !.activeVariant = Bump_switchActiveVariant(fx.activeVariant, key)]
    /\ UNCHANGED <<revision, color, blitter, shadow, last, nops>>
    /\ UNCHANGED <<enginePc, effect, image, initialized, running, elapsedTime,
                   lastTimestamp, clock, queued, listening, frame>>

\* render(blitter, elapsedTime, deltaTime); deltaTime counts the eighths of a
\* revolution the light moves at speed 0.3
BumpRender ==
    /\ fx.kind = "bump"
    /\ nops < MaxFrames
    /\ \E deltaTime \in DeltaTimes :
          LET cleared == clear(revision, blitter, Color4_black(revision)).buf
              moved == Lissajous_update(fx.light, deltaTime, 1)
              path == Bump_path(moved.ret[1])
              realtime == Bump_renderRealtime(revision, blitter, color, fx.heightMap, fx.width,
                                              fx.height, path, cleared)
              mapped == Bump_renderWithMap(revision, blitter, color, fx.heightMap, fx.width,
                                           fx.height, path, cleared,
                                           IF fx.activeVariant = 2 THEN fx.phongMap
                                           ELSE fx.environmentMap, MapSize, MapSize)
              changed == fx.pc = "rendered" /\ fx.activeVariant # fx.rendered
              frame0 == [fx EXCEPT !.pc = "rendered", !.light = moved.curve, !.path = path,
                                   !.rendered = fx.activeVariant, !.key = "",
                                   !.changed = changed,
                                   !.previous = IF changed THEN blitter.backbuffer32
                                                ELSE cleared]
          IN  IF fx.activeVariant = 1
              THEN /\ blitter' = [blitter EXCEPT !.backbuffer32 = realtime.buf]
                   /\ color' = realtime.color
                   /\ fx' = [frame0 EXCEPT !.brightness = realtime.brightness,
                                           !.length0 = realtime.length0,
                                           !.shaded = Bump_indices(fx.width, fx.height),
                                           !.reads = UNION {Bump_reads(k, fx.width) :
                                                            k \in Bump_indices(fx.width,
                                                                               fx.height)}]
              ELSE /\ blitter' = [blitter EXCEPT !.backbuffer32 = mapped.buf]
                   /\ color' = mapped.color
                   /\ fx' = [frame0 EXCEPT !.brightness = [k \in DOMAIN @ |-> 0],
                                           !.length0 = [k \in DOMAIN @ |-> FALSE],
                                           !.shaded = mapped.shaded,
                                           !.reads = mapped.reads]
    /\ last' = [NoCall EXCEPT !.op = "render"]
    /\ shadow' = [i \in DOMAIN shadow |-> None]
    /\ nops' = nops + 1
    /\ UNCHANGED revision
    /\ UNCHANGED <<enginePc, effect, image, initialized, running, elapsedTime,
                   lastTimestamp, clock, queued, listening, frame>>

BumpNext == BumpRender \/ BumpKeydown

SpecBump == BumpInit /\ [][BumpNext]_vars

\* C19: for every light position the normalisation divides by no zero length
\* and every brightness written is a number in 0..255
C19_NoZeroLengthDivision ==
    (fx.kind = "bump" /\ fx.pc = "rendered") =>
        \A k \in DOMAIN fx.brightness :
            /\ ~fx.length0[k]
            /\ fx.brightness[k] # NaN
            /\ fx.brightness[k] >= Num(0) /\ fx.brightness[k] <= Num(255)

\* a frame in which the light stands exactly on a shaded pixel
C19_LightOnPixel ==
    /\ fx.kind = "bump" /\ fx.pc = "rendered"
    /\ \E k \in DOMAIN fx.length0 : fx.length0[k]

(***************************************************************************)
(* 20metaballs: the scalar field of five metaballs.  Positions are taken   *)
(* in halves of a pixel; the field is a fraction in lowest terms, or       *)
(* Infinity.                                                               *)
(***************************************************************************)
MetaSize == 4

count == 5

threshold == 25

RECURSIVE GCD(_, _)
GCD(a, b) == IF b = 0 THEN a ELSE GCD(b, a % b)

\* a fraction in lowest terms; infinite for the quotient by zero
Quotient(n, d) ==
    IF d = 0 THEN [infinite |-> TRUE, n |-> 1, d |-> 1]
    ELSE [infinite |-> FALSE, n |-> n \div GCD(n, d), d |-> d \div GCD(n, d)]

\* field + influence
Field_add(f, g) ==
    IF f.infinite \/ g.infinite THEN Quotient(1, 0)
    ELSE LET l == (f.d \div GCD(f.d, g.d)) * g.d
         IN  Quotient(f.n * (l \div f.d) + g.n * (l \div g.d), l)

\* new Metaball(position, velocity, color, radius)
Metaball(position, radius) ==
    [position |-> position, radius |-> radius, diameter |-> radius + radius]

\* dx * dx + dy * dy for the pixel (x, y), in quarters
Metaball_squared(ball, x, y) ==
    (2 * x - ball.position.x) * (2 * x - ball.position.x)
        + (2 * y - ball.position.y) * (2 * y - ball.position.y)

\* a guard that lets every source contribute
Metaball_contributes_always(squared) == squared >= 0

\* if (squared > 0)
Metaball_contributes(squared) == squared > 0

\* (metaball.diameter * metaball.diameter) / squared
Metaball_influence(ball, squared) == Quotient(4 * ball.diameter * ball.diameter, squared)

\* the field at the pixel (x, y) after the first n metaballs
RECURSIVE Metaball_field(_, _, _, _)
Metaball_field(balls, n, x, y) ==
    IF n = 0 THEN Quotient(0, 1)
    ELSE LET before == Metaball_field(balls, n - 1, x, y)
             squared == Metaball_squared(balls[n], x, y)
         IN  IF Metaball_contributes(squared)
             THEN Field_add(before, Metaball_influence(balls[n], squared))
             ELSE before

\* the metaballs whose influence is computed for the pixel (x, y)
Metaball_divisions(balls, x, y) ==
    {n \in DOMAIN balls : Metaball_contributes(Metaball_squared(balls[n], x, y))}

\* Math.min(255, Math.max(0, Math.floor((field / threshold) * 255))); a field
\* of the threshold or more is told first, its product with 255 not formed
Metaball_intensity(field) ==
    IF field.infinite \/ field.n >= field.d * threshold THEN 255
    ELSE MathMin(255, MathMax(0, (field.n * 255) \div (field.d * threshold)))

\* the position a point of the path gives, in halves of a pixel
Metaball_position(point) == [x |-> point.x \div 10000, y |-> point.y \div 10000]

\* the body of render's inner loop for the pixel at pointer
Metaball_pixel(rev, c, balls, width, pointer) ==
    LET x == pointer % width
        y == pointer \div width
        field == Metaball_field(balls, count, x, y)
        intensity == Metaball_intensity(field)
        gray == [c EXCEPT !.red = Num(intensity), !.green = Num(intensity),
                          !.blue = Num(intensity)]
    IN  [word |-> toAABBGGRR(rev, gray).ret, color |-> toAABBGGRR(rev, gray).obj,
         field |-> field, intensity |-> intensity,
         divisions |-> Metaball_divisions(balls, x, y),
         byZero |-> {n \in Metaball_divisions(balls, x, y) :
                        Metaball_squared(balls[n], x, y) = 0}]

\* radii: the effect's 150, and 1, which leaves the field of the small canvas
\* below the threshold as 150 does on 640 x 480
Radii == {150, 1}

\* the frequencies along x of the five paths: the first metaballs get the
\* least and the others the greatest whole number of randomRange(2, 6)
Frequencies ==
    {[n \in 1..count |-> IF n <= j THEN 2 ELSE 5] : j \in 0..count} \cap
        [1..count -> randomRange(2, 6, 1)]

\* the module after initialize(blitter)
MetaInit ==
    /\ revision = 2
    /\ color = Color4(revision, [NoParams EXCEPT !.caching = Some(FALSE)])
    /\ blitter = create(Num(MetaSize), Num(MetaSize), Color4_white(revision))
    /\ shadow = [i \in 0..(MetaSize * MetaSize - 1) |-> None]
    /\ last = [NoCall EXCEPT !.op = "create"]
    /\ nops = 0
    /\ LoaderIdle
    /\ \E a \in Frequencies, b \in randomRange(2, 6, 1), radius \in Radii :
          fx = [kind |-> "metaballs", pc |-> "initialized",
                width |-> MetaSize, height |-> MetaSize,
                metaballs |-> [n \in 1..count |-> Metaball([x |-> 0, y |-> 0], radius)],
                lissajous |-> [n \in 1..count |->
                                  LissajousCurve("closed", a[n], b, TWOPI \div 4, 1,
                                                 MetaSize, MetaSize, FALSE, 6)],
                field |-> [k \in 0..(MetaSize * MetaSize - 1) |-> Quotient(0, 1)],
                intensity |-> [k \in 0..(MetaSize * MetaSize - 1) |-> 0],
                divisions |-> [k \in 0..(MetaSize * MetaSize - 1) |-> {}],
                byZero |-> [k \in 0..(MetaSize * MetaSize - 1) |-> {}]]

\* render(blitter, elapsedTime, deltaTime); deltaTime counts the eighths of a
\* revolution the paths move at speed 0.2
MetaRender ==
    /\ fx.kind = "metaballs"
    /\ nops < MaxFrames
    /\ \E deltaTime \in DeltaTimes :
          LET cleared == clear(revision, blitter, Color4_black(revision)).buf
              moved == [n \in 1..count |-> Lissajous_update(fx.lissajous[n], deltaTime, 1)]
              balls == [n \in 1..count |->
                           [fx.metaballs[n] EXCEPT
                               !.position = Metaball_position(moved[n].ret[1])]]
              pixel == [k \in DOMAIN cleared |->
                           Metaball_pixel(revision, color, balls, fx.width, k)]
          IN  /\ blitter' = [blitter EXCEPT !.backbuffer32 =
                                [k \in DOMAIN cleared |-> ToUint32(pixel[k].word)]]
              /\ color' = pixel[fx.width * fx.height - 1].color
              /\ fx' = [fx EXCEPT !.pc = "rendered", !.metaballs = balls,
                                  !.lissajous = [n \in 1..count |-> moved[n].curve],
                                  !.field = [k \in DOMAIN cleared |-> pixel[k].field],
                                  !.intensity = [k \in DOMAIN cleared |-> pixel[k].intensity],
                                  !.divisions = [k \in DOMAIN cleared |-> pixel[k].divisions],
                                  !.byZero = [k \in DOMAIN cleared |-> pixel[k].byZero]]
    /\ last' = [NoCall EXCEPT !.op = "render", !.before = blitter.backbuffer32]
    /\ shadow' = [i \in DOMAIN shadow |-> None]
    /\ nops' = nops + 1
    /\ UNCHANGED revision
    /\ UNCHANGED <<enginePc, effect, image, initialized, running, elapsedTime,
                   lastTimestamp, clock, queued, listening, frame>>

MetaNext == MetaRender

SpecMeta == MetaInit /\ [][MetaNext]_vars

\* the metaballs standing exactly on the pixel at pointer k
MetaOnPixel(k) ==
    {n \in 1..count : /\ fx.metaballs[n].position.x = 2 * (k % fx.width)
                      /\ fx.metaballs[n].position.y = 2 * (k \div fx.width)}

\* i is min(255, max(0, floor(field / threshold * 255))) for the finite field f
IsIntensityOf(i, f) ==
    /\ i \in 0..255
    /\ i = 255 <=> f.n >= threshold * f.d
    /\ i < 255 => /\ i * threshold * f.d <= 255 * f.n
                  /\ 255 * f.n < (i + 1) * threshold * f.d

\* C20: in every rendered frame no pixel divides by a squared distance of 0,
\* exactly the metaballs off the pixel contribute, and the gray written is
\* min(255, max(0, floor(field / threshold * 255))), a whole number in 0..255
C20_FieldGuardedAndClamped ==
    (fx.kind = "metaballs" /\ fx.pc = "rendered") =>
        \A k \in DOMAIN fx.intensity :
            /\ fx.byZero[k] = {}
            /\ fx.divisions[k] = (1..count) \ MetaOnPixel(k)
            /\ ~fx.field[k].infinite
            /\ (MetaOnPixel(k) = 1..count) => fx.field[k].n = 0
            /\ IsIntensityOf(fx.intensity[k], fx.field[k])
            /\ blitter.backbuffer32[k] = <<255, fx.intensity[k], fx.intensity[k],
                                           fx.intensity[k]>>

\* a frame with a metaball exactly on a pixel whose gray is neither 0 nor 255
C20_Witness ==
    /\ fx.kind = "metaballs" /\ fx.pc = "rendered"
    /\ \E k \in DOMAIN fx.intensity :
          /\ MetaOnPixel(k) # {}
          /\ fx.divisions[k] # {}
          /\ fx.intensity[k] > 0 /\ fx.intensity[k] < 255

(***************************************************************************)
(* 17rotozoom and 19twirl: the wrap of a source coordinate into the image. *)
(* The rotozoomer's angle is counted in eighths of a revolution.  Of the   *)
(* twirl's twisted angle only its range is kept: cos(twist) * distance +   *)
(* center lies within distance of the center.                              *)
(***************************************************************************)
\* the wrap without the modulus added
Wrap_bare(u, size) == u

\* (u + image.width) % image.width
Wrap(u, size) == JsRemainder(u + size, size)

\* Math.floor(value) % size followed by the wrap, and the index parts
Wrap_source(floorU, floorV, bitmap) ==
    LET u == JsRemainder(floorU, bitmap.width)
        v == JsRemainder(floorV, bitmap.height)
        wu == Wrap(u, bitmap.width)
        wv == Wrap(v, bitmap.height)
    IN  [inside |-> TRUE, floorU |-> floorU, floorV |-> floorV, wu |-> wu, wv |-> wv,
         index |-> wv * bitmap.width + wu]

\* the rotozoomer's Math.floor((x * cos - y * sin) * zoom) and its partner
Roto_floorU(x, y, angle) ==
    ((x * MathCos(angle) - y * MathSin(angle)) * (MathSin(angle) + 1000)) \div 1000000

Roto_floorV(x, y, angle) ==
    ((x * MathSin(angle) + y * MathCos(angle)) * (MathSin(angle) + 1000)) \div 1000000

\* the sources of a rotozoomer frame, by pointer
Roto_sources(bitmap, width, height, angle) ==
    [k \in 0..(width * height - 1) |->
        Wrap_source(Roto_floorU(k % width, k \div width, angle),
                    Roto_floorV(k % width, k \div width, angle), bitmap)]

\* the whole part of the square root, and the square root rounded up
FloorRoot(n) == CHOOSE r \in 0..n : r * r <= n /\ (r + 1) * (r + 1) > n

CeilRoot(n) == IF FloorRoot(n) * FloorRoot(n) = n THEN FloorRoot(n) ELSE FloorRoot(n) + 1

\* four times the squared distance of (x, y) from the center
Twirl_distance2(x, y, width, height) ==
    (2 * x - width) * (2 * x - width) + (2 * y - height) * (2 * y - height)

\* distance < radius, the radius half the smaller side
Twirl_insideRadius(x, y, width, height) ==
    Twirl_distance2(x, y, width, height) < MathMin(width, height) * MathMin(width, height)

\* the values Math.floor(cos(twist) * distance + center) can take along an
\* axis of the given size
Twirl_floors(x, y, width, height, size) ==
    ((size - CeilRoot(Twirl_distance2(x, y, width, height))) \div 2)..
        ((size + FloorRoot(Twirl_distance2(x, y, width, height))) \div 2)

\* the source outside the radius: image.data[y * image.width + x % image.width]
Twirl_plain(x, y, bitmap) ==
    [inside |-> FALSE, floorU |-> x, floorV |-> y, wu |-> JsRemainder(x, bitmap.width),
     wv |-> y, index |-> y * bitmap.width + JsRemainder(x, bitmap.width)]

NoSource == [inside |-> FALSE, floorU |-> 0, floorV |-> 0, wu |-> 0, wv |-> 0, index |-> 0]

\* images narrower, lower, as large as and larger than the canvas
WrapImages == {Image(w, h) : w \in 1..(Width + 1), h \in 1..(Height + 1)}

\* either module after initialize(blitter) has run to its end
WrapInit ==
    /\ revision = 2
    /\ color = Color4(revision, NoParams)
    /\ blitter = create(Num(Width), Num(Height), Color4_white(revision))
    /\ shadow = [i \in 0..(Width * Height - 1) |-> None]
    /\ last = [NoCall EXCEPT !.op = "create"]
    /\ nops = 0
    /\ enginePc = "idle"
    /\ \E name \in {"17rotozoom", "19twirl"} :
          /\ effect = name
          /\ fx = [kind |-> name, pc |-> "initialized", angle |-> 0, pointer |-> 0,
                   width |-> Width, height |-> Height,
                   sources |-> [k \in 0..(Width * Height - 1) |-> NoSource]]
    /\ \E bitmap \in WrapImages : image = [state |-> "loaded", bitmap |-> bitmap]
    /\ initialized = "resolved"
    /\ running = FALSE
    /\ elapsedTime = 0
    /\ lastTimestamp = 0
    /\ clock = 0
    /\ queued = FALSE
    /\ listening = FALSE
    /\ frame = NoFrame

\* render(blitter, elapsedTime, deltaTime) of the rotozoomer
RotoRender ==
    /\ fx.kind = "17rotozoom"
    /\ nops < MaxFrames
    /\ \E deltaTime \in DeltaTimes :
          LET angle == fx.angle + deltaTime
              sources == Roto_sources(image.bitmap, fx.width, fx.height, angle)
          IN  /\ fx' = [fx EXCEPT !.pc = "rendered", !.angle = angle, !.sources = sources,
                                  !.pointer = fx.width * fx.height]
              /\ blitter' = [blitter EXCEPT !.backbuffer32 =
                                [k \in DOMAIN @ |->
                                    ToUint32(Load(image.bitmap.data, sources[k].index))]]
    /\ last' = [NoCall EXCEPT !.op = "render", !.before = blitter.backbuffer32]
    /\ shadow' = [i \in DOMAIN shadow |-> None]
    /\ nops' = nops + 1
    /\ UNCHANGED <<revision, color, enginePc, effect, image, initialized, running,
                   elapsedTime, lastTimestamp, clock, queued, listening, frame>>

\* render(blitter, elapsedTime, deltaTime) of the twirl is called: pointer = 0
TwirlRender ==
    /\ fx.kind = "19twirl"
    /\ fx.pc # "rendering"
    /\ nops < MaxFrames
    /\ fx' = [fx EXCEPT !.pc = "rendering", !.pointer = 0]
    /\ last' = [NoCall EXCEPT !.op = "render", !.before = blitter.backbuffer32]
    /\ shadow' = [i \in DOMAIN shadow |-> None]
    /\ nops' = nops + 1
    /\ UNCHANGED <<revision, color, blitter, enginePc, effect, image, initialized, running,
                   elapsedTime, lastTimestamp, clock, queued, listening, frame>>

\* one turn of the twirl's inner loop
TwirlPixel ==
    /\ fx.kind = "19twirl"
    /\ fx.pc = "rendering"
    /\ LET x == fx.pointer % fx.width
           y == fx.pointer \div fx.width
           done == IF fx.pointer + 1 = fx.width * fx.height THEN "rendered" ELSE "rendering"
       IN  \E floorU \in Twirl_floors(x, y, fx.width, fx.height, fx.width),
              floorV \in Twirl_floors(x, y, fx.width, fx.height, fx.height) :
              LET source == IF Twirl_insideRadius(x, y, fx.width, fx.height)
                            THEN Wrap_source(floorU, floorV, image.bitmap)
                            ELSE Twirl_plain(x, y, image.bitmap)
              IN  /\ fx' = [fx EXCEPT !.pc = done, !.pointer = @ + 1,
                                      !.sources[fx.pointer] = source]
                  /\ blitter' = [blitter EXCEPT !.backbuffer32 =
                                    Store(@, fx.pointer, Load(image.bitmap.data, source.index))]
    /\ UNCHANGED <<revision, color, shadow, last, nops>>
    /\ UNCHANGED <<enginePc, effect, image, initialized, running, elapsedTime,
                   lastTimestamp, clock, queued, listening, frame>>

WrapNext == RotoRender \/ TwirlRender \/ TwirlPixel

SpecWrap == WrapInit /\ [][WrapNext]_vars

\* C21: every source the rotozoomer computes, and every source the twirl
\* computes inside its radius, has 0 <= wu < image.width, 0 <= wv <
\* image.height and an index inside the image data
C21_WrappedSourceInImage ==
    (fx.kind \in {"17rotozoom", "19twirl"}) =>
        \A k \in DOMAIN fx.sources :
            fx.sources[k].inside =>
                /\ fx.sources[k].wu >= 0 /\ fx.sources[k].wu < image.bitmap.width
                /\ fx.sources[k].wv >= 0 /\ fx.sources[k].wv < image.bitmap.height
                /\ fx.sources[k].index \in DOMAIN image.bitmap.data
                /\ (k < fx.pointer =>
                      blitter.backbuffer32[k] = image.bitmap.data[fx.sources[k].index])

\* a rotozoomer frame with a negative intermediate coordinate beyond the image
C21_Witness ==
    /\ fx.kind = "17rotozoom" /\ fx.pc = "rendered"
    /\ \E k \in DOMAIN fx.sources :
          /\ fx.sources[k].floorU < 0 - image.bitmap.width
          /\ fx.sources[k].wu > 0

(***************************************************************************)
(* Further claims about the engine                                         *)
(***************************************************************************)
\* C22: when the image fails to load, loading() and with it initialize()
\* reject, and the loader treats the effect as failed: no frame is rendered
\* with the promise of initialize rejected.
C22_LoadFailureReachesLoader ==
    /\ image.state = "failed" => initialized = "rejected"
    /\ frame.count > 0 => frame.initialized # "rejected"

(***************************************************************************)
(* line.ts: horizontal lines.  Coordinates are whole pixels.               *)
(***************************************************************************)
\* backbuffer[pointer + x] = word for x = 0 .. span
Line_store(backbuffer, pointer, span, word) ==
    [k \in DOMAIN backbuffer |->
        IF k >= pointer /\ k <= pointer + span THEN ToUint32(word) ELSE backbuffer[k]]

\* lineHorizontalAbsolute(blitter, x1, x2, y, color, clip, backbuffer): x2 is
\* computed from the x1 already replaced by the minimum
lineHorizontalAbsolute(rev, b, x1, x2, y, c, clip, backbuffer) ==
    IF y < 0 \/ y >= b.clipping.maxY THEN backbuffer
    ELSE LET least == MathMin(x1, x2)
             greatest == MathMax(least, x2)
             from == IF clip THEN MathMax(0, least) ELSE least
             to == IF clip THEN MathMin(b.clipping.maxX - 1, greatest) ELSE greatest
         IN  Line_store(backbuffer, y * b.width + from, to - from, toAABBGGRR(rev, c).ret)

\* lineHorizontalVector(blitter, v1, v2, color, clip, backbuffer)
lineHorizontalVector(rev, b, v1, v2, c, clip, backbuffer) ==
    IF v1.y # v2.y THEN backbuffer
    ELSE IF v1.y < 0 \/ v1.y >= b.clipping.maxY THEN backbuffer
    ELSE LET least == MathMin(v1.x, v2.x)
             greatest == MathMax(v1.x, v2.x)
             from == IF clip THEN MathMax(0, least) ELSE least
             to == IF clip THEN MathMin(b.clipping.maxX - 1, greatest) ELSE greatest
         IN  Line_store(backbuffer, v1.y * b.width + from, to - from, toAABBGGRR(rev, c).ret)

Vector2(x, y) == [x |-> x, y |-> y]

LineXs == (0 - 2)..(Width + 1)

LineYs == (0 - 1)..Height

LineInit ==
    /\ revision = 2
    /\ color \in {Color4_red(revision), Color4_blue(revision)}
    /\ blitter = create(Num(Width), Num(Height), Color4_white(revision))
    /\ shadow = [i \in 0..(Width * Height - 1) |-> None]
    /\ last = [NoCall EXCEPT !.op = "create"]
    /\ nops = 0
    /\ LoaderIdle
    /\ fx = [kind |-> "line", op |-> "none", x1 |-> 0, x2 |-> 0, y1 |-> 0, y2 |-> 0,
             clip |-> FALSE]

\* blitter.lineHorizontalAbsolute(x1, x2, y, color, clip)
LineHorizontalAbsolute ==
    /\ fx.kind = "line"
    /\ nops < MaxDraws
    /\ \E x1 \in LineXs, x2 \in LineXs, y \in LineYs, clip \in BOOLEAN :
          /\ blitter' = [blitter EXCEPT !.backbuffer32 =
                lineHorizontalAbsolute(revision, blitter, x1, x2, y, color, clip, @)]
          /\ fx' = [fx EXCEPT !.op = "lineHorizontalAbsolute", !.x1 = x1, !.x2 = x2,
                              !.y1 = y, !.y2 = y, !.clip = clip]
    /\ color' = toAABBGGRR(revision, color).obj
    /\ last' = [NoCall EXCEPT !.op = "line", !.before = blitter.backbuffer32]
    /\ shadow' = [i \in DOMAIN shadow |-> None]
    /\ nops' = nops + 1
    /\ UNCHANGED revision
    /\ UNCHANGED <<enginePc, effect, image, initialized, running, elapsedTime,
                   lastTimestamp, clock, queued, listening, frame>>

\* blitter.lineHorizontalVector(v1, v2, color, clip)
LineHorizontalVector ==
    /\ fx.kind = "line"
    /\ nops < MaxDraws
    /\ \E x1 \in LineXs, x2 \in LineXs, y1 \in LineYs, y2 \in LineYs, clip \in BOOLEAN :
          /\ blitter' = [blitter EXCEPT !.backbuffer32 =
                lineHorizontalVector(revision, blitter, Vector2(x1, y1), Vector2(x2, y2),
                                     color, clip, @)]
          /\ fx' = [fx EXCEPT !.op = "lineHorizontalVector", !.x1 = x1, !.x2 = x2,
                              !.y1 = y1, !.y2 = y2, !.clip = clip]
    /\ color' = toAABBGGRR(revision, color).obj
    /\ last' = [NoCall EXCEPT !.op = "line", !.before = blitter.backbuffer32]
    /\ shadow' = [i \in DOMAIN shadow |-> None]
    /\ nops' = nops + 1
    /\ UNCHANGED revision
    /\ UNCHANGED <<enginePc, effect, image, initialized, running, elapsedTime,
                   lastTimestamp, clock, queued, listening, frame>>

LineNext == LineHorizontalAbsolute \/ LineHorizontalVector

SpecLine == LineInit /\ [][LineNext]_vars

\* the line from column `from` to column `to` of row y drawn on the buffer
\* the call found, clipped to the row
LineOnRow(from, to, y) ==
    [k \in DOMAIN last.before |->
        IF k \div Width = y /\ k % Width >= from /\ k % Width <= to
        THEN toAABBGGRR(revision, color).ret ELSE last.before[k]]

\* C26: a clipped lineHorizontalAbsolute on a visible row writes exactly the
\* columns min(x1, x2) .. max(x1, x2) of the row that lie on the screen, and
\* so does lineHorizontalVector; with clip and without, the call with the
\* endpoints swapped leaves the buffer in the same state
C26_LineEndpointsCommute ==
    /\ (/\ fx.kind = "line"
        /\ fx.op \in {"lineHorizontalAbsolute", "lineHorizontalVector"}
        /\ fx.clip /\ fx.y1 = fx.y2 /\ fx.y1 >= 0 /\ fx.y1 < Height) =>
           blitter.backbuffer32 =
               LineOnRow(MathMin(fx.x1, fx.x2), MathMax(fx.x1, fx.x2), fx.y1)
    /\ (fx.kind = "line" /\ fx.op = "lineHorizontalAbsolute") =>
           blitter.backbuffer32 =
               lineHorizontalAbsolute(revision, blitter, fx.x2, fx.x1, fx.y1, color, fx.clip,
                                      last.before)
    /\ (fx.kind = "line" /\ fx.op = "lineHorizontalVector") =>
           blitter.backbuffer32 =
               lineHorizontalVector(revision, blitter, Vector2(fx.x2, fx.y2),
                                    Vector2(fx.x1, fx.y1), color, fx.clip, last.before)

(***************************************************************************)
(* 21twister: the key-selected twist and rendering, and the frame drawn    *)
(* row by row and side by side.  The rotation is counted in eighths of a   *)
(* revolution; the twists, computed in thousandths of a radian, are        *)
(* rounded to eighths before a sine or cosine is taken.  twisterWidth is a *)
(* quarter of the canvas width, rounded down.                              *)
(***************************************************************************)
TwisterSize == 4

twisterWidth == TwisterSize \div 4

Color4_green(rev) ==
    Color4(rev, [alpha |-> Some(Num(255)), red |-> Some(Num(0)), green |-> Some(Num(255)),
                 blue |-> Some(Num(0)), caching |-> None])

Color4_purple(rev) ==
    Color4(rev, [alpha |-> Some(Num(255)), red |-> Some(Num(255)), green |-> Some(Num(0)),
                 blue |-> Some(Num(255)), caching |-> None])

\* colors[i] for i = 0 .. 3
Twister_colors(rev) ==
    [i \in 0..3 |-> CASE i = 0 -> Color4_red(rev) [] i = 1 -> Color4_green(rev)
                      [] i = 2 -> Color4_blue(rev) [] OTHER -> Color4_purple(rev)]

\* a listener that takes every digit for a twist
Twister_switchActiveVariant_digits(s, key) ==
    IF key = "5" THEN [s EXCEPT !.activeTwist = 5] ELSE s

\* switchActiveVariant(event) of the twister, on the record of the two selectors
Twister_switchActiveVariant(s, key) ==
    LET twisted == CASE key = "1" -> [s EXCEPT !.activeTwist = 1]
                     [] key = "2" -> [s EXCEPT !.activeTwist = 2]
                     [] key = "3" -> [s EXCEPT !.activeTwist = 3]
                     [] key = "4" -> [s EXCEPT !.activeTwist = 4]
                     [] OTHER -> s
    IN  CASE key = "f" -> [twisted EXCEPT !.activeRendering = 1]
          [] key = "g" -> [twisted EXCEPT !.activeRendering = 2]
          [] key = "t" -> [twisted EXCEPT !.activeRendering = 3]
          [] OTHER -> twisted

\* x[i] = Math.round(Math.sin(angle + angles[i]) * twisterWidth + center.x + twistX),
\* twistX in thousandths
Twister_x(angle, i, width, twistX) ==
    MathRound(MathSin(angle + 2 * i) * twisterWidth + 500 * width + twistX, 1000)

\* c1 + t * (c2 - c1) for t = (x - x1) / (x2 - x1), times 0.9 on an even
\* stripe of the texture, floored to the model's numbers
Twister_shade(c1, c2, x, x1, x2, textured) ==
    LET numerator == c1 * (x2 - x1) + (x - x1) * (c2 - c1)
        isEven == (((x - x1) * twisterWidth) \div (2 * (x2 - x1))) % 2 = 0
    IN  IF textured /\ isEven THEN (9 * numerator) \div (10 * (x2 - x1))
        ELSE numerator \div (x2 - x1)

\* the colour object at column x of a Gouraud loop
Twister_shaded(c, c1, c2, x, x1, x2, textured) ==
    [c EXCEPT !.red = Twister_shade(c1.red, c2.red, x, x1, x2, textured),
              !.green = Twister_shade(c1.green, c2.green, x, x1, x2, textured),
              !.blue = Twister_shade(c1.blue, c2.blue, x, x1, x2, textured)]

\* the Gouraud loops for x = x1 .. x2 with their blitter.setPixel(x, y, color),
\* by buffer index: the buffer and the colour object afterwards
Twister_gouraud(rev, b, buf, c, x1, x2, y, c1, c2, textured) ==
    [buf |-> [k \in DOMAIN buf |->
                IF k - y * b.width >= x1 /\ k - y * b.width <= x2
                THEN setPixel(rev, b, k - y * b.width, y,
                              Twister_shaded(c, c1, c2, k - y * b.width, x1, x2, textured),
                              FALSE, buf).buf[k]
                ELSE buf[k]],
     color |-> Twister_shaded(c, c1, c2, x2, x1, x2, textured)]

\* side i of row y: the buffer and the colour object afterwards
Twister_side(rev, b, buf, c, activeRendering, x, y, i) ==
    LET x1 == x[i]
        x2 == x[(i + 1) % 4]
        c1 == Twister_colors(rev)[i]
        c2 == Twister_colors(rev)[(i + 1) % 4]
    IN  IF x1 < x2
        THEN IF activeRendering = 1
             THEN [buf |-> lineHorizontalAbsolute(rev, b, x1, x2, y, c1, FALSE, buf),
                   color |-> c]
             ELSE Twister_gouraud(rev, b, buf, c, x1, x2, y, c1, c2, activeRendering = 3)
        ELSE [buf |-> buf, color |-> c]

\* the buffer indices side i of row y writes
Twister_written(b, x, y, i) ==
    IF x[i] < x[(i + 1) % 4]
    THEN {k \in DOMAIN b.backbuffer32 :
             k - y * b.width >= x[i] /\ k - y * b.width <= x[(i + 1) % 4]}
    ELSE {}

\* thousandths of a radian as eighths of a revolution, to the nearest
Eighths(mrad) == MathRound(mrad * 4, 3142)

\* elapsedTime = rotation / 0.5, in thousandths of a radian
Twister_elapsedTime(rotation) == (rotation * 3142) \div 2

\* twistY of row y in thousandths of a radian
Twister_twistY(activeTwist, rotation, y, height) ==
    CASE activeTwist \in {2, 3} -> (MathSin(rotation) * 3142 * y) \div (1000 * height)
      [] activeTwist = 4 ->
            Twister_elapsedTime(rotation) + (1000 * y) \div height
                + (14 * MathSin(Eighths((5000 * y) \div height + MathCos(2 * rotation)))) \div 10
                + (55 * MathSin(Eighths((2300 * y) \div height
                        + MathCos(Eighths((Twister_elapsedTime(rotation) * 9) \div 10)))))
                      \div 100
      [] OTHER -> 0

\* angle of row y, in eighths
Twister_angle(activeTwist, rotation, y, height) ==
    rotation + Eighths(Twister_twistY(activeTwist, rotation, y, height))

\* twistX of row y in thousandths of a pixel
Twister_twistX(activeTwist, rotation, y, height, width) ==
    IF activeTwist \in {3, 4}
    THEN (50 * MathSin(2 * rotation + Eighths((5400 * y) \div height)) * width) \div 1000
    ELSE 0

\* the rotations of the frames: elapsedTime * 0.5 at rest and an eighth of a
\* revolution on
Rotations == {0, 1}

TwisterKeys == {"1", "2", "3", "4", "f", "g", "t", "5", "F"}

\* the module after initialize(blitter)
TwisterInit ==
    /\ revision = 2
    /\ color = Color4(revision, [NoParams EXCEPT !.caching = Some(FALSE)])
    /\ blitter = create(Num(TwisterSize), Num(Height), Color4_white(revision))
    /\ shadow = [i \in 0..(TwisterSize * Height - 1) |-> None]
    /\ last = [NoCall EXCEPT !.op = "create"]
    /\ nops = 0
    /\ LoaderIdle
    /\ fx = [kind |-> "21twister", pc |-> "initialized", activeTwist |-> 1,
             activeRendering |-> 1, width |-> TwisterSize, height |-> Height,
             key |-> "", written |-> {},
             rotation |-> 0, row |-> 0, side |-> 0, x |-> [i \in 0..3 |-> 0], rendered |-> [activeTwist |-> 1, activeRendering |-> 1],
             start |-> Uint32Array(TwisterSize * Height),
             previous |-> Uint32Array(TwisterSize * Height), changed |-> FALSE]

\* the keydown listener of the twister
TwisterKeydown ==
    /\ fx.kind = "21twister"
    /\ fx.pc \in {"initialized", "rendered"}
    /\ \E key \in TwisterKeys :
          LET s == Twister_switchActiveVariant(
                       [activeTwist |-> fx.activeTwist, activeRendering |-> fx.activeRendering],
                       key)
          IN  fx' = [fx EXCEPT !.key = key,
                               !.activeTwist = s.activeTwist,
                               !.activeRendering = s.activeRendering]
    /\ UNCHANGED <<revision, color, blitter, shadow, last, nops>>
    /\ UNCHANGED <<enginePc, effect, image, initialized, running, elapsedTime,
                   lastTimestamp, clock, queued, listening, frame>>

\* a frame was rendered and a key has changed a selector since
Twister_changed(s) ==
    /\ s.pc = "rendered"
    /\ s.activeTwist # s.rendered.activeTwist \/ s.activeRendering # s.rendered.activeRendering

\* render(blitter, elapsedTime, deltaTime) up to its loop: the screen is cleared
TwisterRender ==
    /\ fx.kind = "21twister"
    /\ fx.pc \in {"initialized", "rendered"}
    /\ nops < MaxFrames
    /\ \E rotation \in Rotations :
          LET cleared == clear(revision, blitter, Color4_black(revision)).buf
          IN  /\ blitter' = [blitter EXCEPT !.backbuffer32 = cleared]
              /\ fx' = [fx EXCEPT !.pc = "rendering", !.rotation = rotation, !.row = 0,
                                  !.key = "", !.written = {},
                                  !.start = cleared,
                                  !.previous = IF Twister_changed(fx)
                                               THEN blitter.backbuffer32 ELSE cleared,
                                  !.changed = Twister_changed(fx),
                                  !.rendered = [activeTwist |-> fx.activeTwist,
                                                activeRendering |-> fx.activeRendering]]
    /\ last' = [NoCall EXCEPT !.op = "render"]
    /\ shadow' = [i \in DOMAIN shadow |-> None]
    /\ nops' = nops + 1
    /\ UNCHANGED <<revision, color>>
    /\ UNCHANGED <<enginePc, effect, image, initialized, running, elapsedTime,
                   lastTimestamp, clock, queued, listening, frame>>

\* one turn of render's loop over the rows, up to the x-coordinates of the sides
TwisterRow ==
    /\ fx.kind = "21twister"
    /\ fx.pc = "rendering"
    /\ LET angle == Twister_angle(fx.activeTwist, fx.rotation, fx.row, fx.height)
           twistX == Twister_twistX(fx.activeTwist, fx.rotation, fx.row, fx.height, fx.width)
       IN  fx' = [fx EXCEPT !.pc = "sides", !.side = 0,
                            !.x = [i \in 0..3 |-> Twister_x(angle, i, fx.width, twistX)]]
    /\ UNCHANGED <<revision, color, blitter, shadow, last, nops>>
    /\ UNCHANGED <<enginePc, effect, image, initialized, running, elapsedTime,
                   lastTimestamp, clock, queued, listening, frame>>

\* one turn of the loop over the sides of the row
TwisterSide ==
    /\ fx.kind = "21twister"
    /\ fx.pc = "sides"
    /\ LET r == Twister_side(revision, blitter, blitter.backbuffer32, color,
                             fx.activeRendering, fx.x, fx.row, fx.side)
       IN  /\ blitter' = [blitter EXCEPT !.backbuffer32 = r.buf]
           /\ color' = r.color
    /\ fx' = [fx EXCEPT !.written = @ \cup Twister_written(blitter, fx.x, fx.row, fx.side),
                        !.side = IF fx.side = 3 THEN 0 ELSE @ + 1,
                        !.x = IF fx.side = 3 THEN [i \in 0..3 |-> 0] ELSE @,
                        !.row = IF fx.side = 3 THEN @ + 1 ELSE @,
                        !.pc = IF fx.side < 3 THEN "sides"
                               ELSE IF fx.row + 1 = fx.height THEN "rendered"
                               ELSE "rendering"]
    /\ UNCHANGED <<revision, shadow, last, nops>>
    /\ UNCHANGED <<enginePc, effect, image, initialized, running, elapsedTime,
                   lastTimestamp, clock, queued, listening, frame>>

TwisterNext == TwisterKeydown \/ TwisterRender \/ TwisterRow \/ TwisterSide

SpecTwister == TwisterInit /\ [][TwisterNext]_vars

\* ---------------------------------------------------------------------------
\* The effects with key-selectable variants, side by side
\* ---------------------------------------------------------------------------

\* the twister, or the image bump map over the ridged height map
VariantsInit ==
    \/ TwisterInit
    \/ /\ BumpInit
       /\ fx.heightMap = [k \in 0..(BumpSize * BumpSize - 1) |-> (k % 3) * 30]

VariantsNext == TwisterNext \/ BumpNext

SpecVariants == VariantsInit /\ [][VariantsNext]_vars

\* the twist a digit key selects
TwistOfKey(key) == CASE key = "1" -> 1 [] key = "2" -> 2 [] key = "3" -> 3 [] OTHER -> 4

\* the rendering a letter key selects
RenderingOfKey(key) == CASE key = "f" -> 1 [] key = "g" -> 2 [] OTHER -> 3

\* C23: in the twister activeTwist stays in 1..4 and activeRendering in 1..3;
\* a step that presses '1'..'4' sets activeTwist to that digit and leaves
\* activeRendering alone, a step that presses 'f', 'g' or 't' sets
\* activeRendering to 1, 2 or 3 and leaves activeTwist alone, and every other
\* step leaves both alone. In the image bump map activeVariant stays in 1..3
\* and changes only in a step that presses '1', '2' or '3'.
C23_KeysSelectVariants ==
    [][/\ fx.kind = "21twister" =>
            /\ fx.activeTwist \in 1..4 /\ fx'.activeTwist \in 1..4
            /\ fx.activeRendering \in 1..3 /\ fx'.activeRendering \in 1..3
            /\ fx'.key \in {"1", "2", "3", "4"} =>
                  /\ fx'.activeTwist = TwistOfKey(fx'.key)
                  /\ fx'.activeRendering = fx.activeRendering
            /\ fx'.key \in {"f", "g", "t"} =>
                  /\ fx'.activeRendering = RenderingOfKey(fx'.key)
                  /\ fx'.activeTwist = fx.activeTwist
            /\ fx'.key \notin {"1", "2", "3", "4", "f", "g", "t"} =>
                  /\ fx'.activeTwist = fx.activeTwist
                  /\ fx'.activeRendering = fx.activeRendering
       /\ fx.kind = "bump" =>
            /\ fx.activeVariant \in 1..3 /\ fx'.activeVariant \in 1..3
            /\ fx'.activeVariant # fx.activeVariant => fx'.key \in {"1", "2", "3"}]_vars

\* the twister after '3' and then 't', both selectors moved off their defaults
C23_Witness ==
    /\ fx.kind = "21twister"
    /\ fx.key = "t"
    /\ fx.activeTwist = 3
    /\ fx.activeRendering = 3

\* the word clear(Color4.black) stores
BlackWord == ToUint32(toAABBGGRR(revision, Color4_black(revision)).ret)

\* the buffer indices the finished frame wrote after clearing
VariantWritten == IF fx.kind = "21twister" THEN fx.written ELSE fx.shaded

\* C25: when a render of the twister or of the image bump map has finished,
\* every pixel of the buffer is black or was written in this render by the
\* active variant; nothing of the frame of the variant before is left.
C25_NoLeakFromPreviousVariant ==
    (fx.kind \in {"21twister", "bump"} /\ fx.pc = "rendered") =>
        \A k \in DOMAIN blitter.backbuffer32 :
            blitter.backbuffer32[k] = BlackWord \/ k \in VariantWritten

\* a frame rendered after the variant changed: a pixel the frame before had
\* coloured is black again and was not written
C25_Witness ==
    /\ fx.kind \in {"21twister", "bump"}
    /\ fx.pc = "rendered"
    /\ fx.changed
    /\ \E k \in DOMAIN blitter.backbuffer32 :
          /\ fx.previous[k] # BlackWord
          /\ k \notin VariantWritten
          /\ blitter.backbuffer32[k] = BlackWord

\* C27: a finished bump-mapping render has shaded only pixels at least one
\* pixel away from each edge of the buffer, and every index of the height
\* map its central differences have read lies inside the height map.
C27_HeightMapReadsInside ==
    (fx.kind = "bump" /\ fx.pc = "rendered") =>
        /\ fx.shaded \subseteq Bump_indices(fx.width, fx.height)
        /\ fx.reads \subseteq DOMAIN fx.heightMap

\* ---------------------------------------------------------------------------
\* The curve with a = 1, b = 1, delta = 0 over an area of 100 by 100
\* ---------------------------------------------------------------------------
ScenarioInit ==
    /\ revision = 2
    /\ color = Color4(revision, NoParams)
    /\ blitter = NoBlitter
    /\ shadow = [i \in DOMAIN NoBlitter.backbuffer32 |-> None]
    /\ last = NoCall
    /\ nops = 0
    /\ LoaderIdle
    /\ \E kind \in {"closed", "table"}, uniform \in BOOLEAN, scale \in {10, 5} :
          fx = [kind |-> "lissajous", calls |-> 0, deltaTime |-> 0, speed |-> 0,
                curve |-> LissajousCurve(kind, 1, 1, 0, 1, 100, 100, uniform, scale),
                timeBefore |-> 0, ret |-> None, retBefore |-> None]

SpecScenario == ScenarioInit /\ [][LissajousNext]_vars

\* the first update, with deltaTime = 0, of a curve of scale 1
FirstZeroUpdate ==
    /\ fx.kind = "lissajous"
    /\ fx.curve.a = 1 /\ fx.curve.b = 1 /\ fx.curve.delta = 0
    /\ fx.curve.center = Lissajous_center(100, 100)
    /\ fx.curve.dimensions = Lissajous_dimensions(100, 100, FALSE, 10)
    /\ fx.calls = 1 /\ fx.deltaTime = 0 /\ fx.timeBefore = 0

\* the point (x, y) in pixels
PointAt(x, y) == Some([x |-> 20000 * x, y |-> 20000 * y])

\* C24 as stated: the first update with deltaTime = 0 yields the point (50, 100)
C24_FirstPointAsStated == FirstZeroUpdate => fx.ret = PointAt(50, 100)

\* C24: the first update with deltaTime = 0 yields the point (100, 100) from
\* the curve computed in closed form, cos(0) = 1 on both axes, and the point
\* (50, 100) from the curve with the precomputed track, whose x is a sine.
C24_FirstPoint ==
    FirstZeroUpdate =>
        fx.ret = IF fx.curve.kind = "closed" THEN PointAt(100, 100) ELSE PointAt(50, 100)

\* the closed form after its first update with deltaTime = 0
C24_Witness == FirstZeroUpdate /\ fx.curve.kind = "closed" /\ fx.ret = PointAt(100, 100)

(***************************************************************************)
(* Further claims about the fire propagation                               *)
(***************************************************************************)
\* the cells the propagation loop reads for the cell at pointer
Fire_reads(width, pointer) ==
    {pointer + width, pointer + width - 1, pointer + width + 1, pointer + width + width}

\* C28: in a propagation step every cell read for a cell the loop updates,
\* at pointer + width - 1, pointer + width, pointer + width + 1 and
\* pointer + 2 * width, lies inside the fire buffer.
C28_FireReadsInside ==
    FireStepped =>
        \A pointer \in FireUpdated : Fire_reads(fx.width, pointer) \subseteq DOMAIN fx.fire

(***************************************************************************)
(* Further claims about the engine loop                                    *)
(***************************************************************************)
\* the time the frame before was called with; before the first frame the
\* time loader took at its end
TimeOfFrameBefore == IF frame.count = 0 THEN lastTimestamp ELSE frame.timestamp

Fill_index(i, length) == IF i < 0 THEN MathMax(length + i, 0) ELSE MathMin(i, length)

\* backbuffer.fill(word, position, position + width) for height rows, the
\* position moving on by blitter.width from row to row
Rect_fill(backbuffer, position, width, height, stride, word) ==
    [k \in DOMAIN backbuffer |->
        IF \E y \in 0..(height - 1) :
              /\ k >= Fill_index(position + y * stride, Length(backbuffer))
              /\ k < Fill_index(position + y * stride + width, Length(backbuffer))
        THEN ToUint32(word)
        ELSE backbuffer[k]]

\* a coordinate left as it is whether clip is set or not
Rect_clipped_never(clip, v, min, max) == v

\* clip ? clamp(v, min, max) : v
Rect_clipped(clip, v, min, max) == IF clip THEN clamp(v, min, max) ELSE v

MathAbs(v) == IF v < 0 THEN 0 - v ELSE v

\* rectangle(blitter, v1, v2, color, clip, backbuffer): the buffer and the
\* colour object afterwards
rectangle(rev, b, v1, v2, c, clip, backbuffer) ==
    LET clippedX1 == Rect_clipped(clip, FloorInt(v1.x), b.clipping.minX, b.clipping.maxX)
        clippedY1 == Rect_clipped(clip, FloorInt(v1.y), b.clipping.minY, b.clipping.maxY)
        clippedX2 == Rect_clipped(clip, FloorInt(v2.x), b.clipping.minX, b.clipping.maxX)
        clippedY2 == Rect_clipped(clip, FloorInt(v2.y), b.clipping.minY, b.clipping.maxY)
        width == MathAbs(clippedX2 - clippedX1)
        height == MathAbs(clippedY2 - clippedY1)
        startX == MathMin(clippedX1, clippedX2)
        startY == MathMin(clippedY1, clippedY2)
        packed == toAABBGGRR(rev, c)
    IN  IF width = 0 \/ height = 0 THEN [buf |-> backbuffer, color |-> c]
        ELSE [buf |-> Rect_fill(backbuffer, startY * b.width + startX, width, height, b.width,
                                packed.ret),
              color |-> packed.obj]

\* corner coordinates: left of, on and right of the canvas, and one between
\* two pixels
RectXs == {Num(0 - 1), Num(0), Num(1) + 1, Num(Width), Num(Width + 1)}

RectYs == {Num(0 - 1), Num(0) + 1, Num(Height), Num(Height + 1)}

RectInit ==
    /\ revision = 2
    /\ color = Color4_red(revision)
    /\ blitter = create(Num(Width), Num(Height), Color4_white(revision))
    /\ shadow = [i \in 0..(Width * Height - 1) |-> None]
    /\ last = [NoCall EXCEPT !.op = "create"]
    /\ nops = 0
    /\ LoaderIdle
    /\ fx = [kind |-> "rectangle", op |-> "none", v1 |-> Vector2(0, 0), v2 |-> Vector2(0, 0),
             clip |-> FALSE]

\* blitter.rectangle(v1, v2, color, clip), in red and in blue by turns
Rectangle ==
    /\ fx.kind = "rectangle"
    /\ nops < MaxDraws
    /\ \E x1 \in RectXs, x2 \in RectXs, y1 \in RectYs, y2 \in RectYs, clip \in BOOLEAN :
          LET r == rectangle(revision, blitter, Vector2(x1, y1), Vector2(x2, y2), color, clip,
                             blitter.backbuffer32)
          IN  /\ blitter' = [blitter EXCEPT !.backbuffer32 = r.buf]
              /\ color' = IF nops % 2 = 0 THEN Color4_blue(revision) ELSE Color4_red(revision)
              /\ fx' = [fx EXCEPT !.op = "rectangle", !.v1 = Vector2(x1, y1),
                                  !.v2 = Vector2(x2, y2), !.clip = clip]
              /\ last' = [NoCall EXCEPT !.op = "rectangle", !.before = blitter.backbuffer32,
                                        !.word = toAABBGGRR(revision, color).ret]
    /\ shadow' = [i \in DOMAIN shadow |-> None]
    /\ nops' = nops + 1
    /\ UNCHANGED revision
    /\ UNCHANGED <<enginePc, effect, image, initialized, running, elapsedTime,
                   lastTimestamp, clock, queued, listening, frame>>

RectNext == Rectangle

SpecRect == RectInit /\ [][RectNext]_vars

\* the floored coordinate v clamped to min..max
RectClamped(v, min, max) ==
    IF v \div Scale < min THEN min ELSE IF v \div Scale > max THEN max ELSE v \div Scale

\* the pixel (x, y) lies between the clamped corners of the last call
RectCovers(x, y) ==
    LET c == blitter.clipping
        cx1 == RectClamped(fx.v1.x, c.minX, c.maxX)
        cx2 == RectClamped(fx.v2.x, c.minX, c.maxX)
        cy1 == RectClamped(fx.v1.y, c.minY, c.maxY)
        cy2 == RectClamped(fx.v2.y, c.minY, c.maxY)
    IN  /\ x >= MathMin(cx1, cx2) /\ x < MathMax(cx1, cx2)
        /\ y >= MathMin(cy1, cy2) /\ y < MathMax(cy1, cy2)

\* the clamped rectangle of the last call has no width or no height
RectEmpty == \A k \in DOMAIN blitter.backbuffer32 : ~RectCovers(k % blitter.width, k \div blitter.width)

\* C30: after rectangle(v1, v2, color, clip = true) every pixel that changed
\* lies inside the clipping bounds; the pixels between the floored corners
\* clamped to the clipping bounds, the smaller included and the larger
\* excluded on both axes, hold the colour and every other pixel is as it
\* was; nothing is written when the clamped width or height is 0; and the
\* call with the two corners swapped gives the same buffer.
C30_RectangleClipped ==
    (fx.kind = "rectangle" /\ fx.op = "rectangle" /\ fx.clip) =>
        /\ \A k \in DOMAIN blitter.backbuffer32 :
              /\ blitter.backbuffer32[k] # last.before[k] =>
                    ~OutsideClipping(blitter.clipping, k % blitter.width, k \div blitter.width)
              /\ blitter.backbuffer32[k] =
                    IF RectCovers(k % blitter.width, k \div blitter.width) THEN last.word
                    ELSE last.before[k]
        /\ RectEmpty => blitter.backbuffer32 = last.before
        /\ \A c \in {Color4_red(revision), Color4_blue(revision)} :
              rectangle(revision, blitter, fx.v1, fx.v2, c, TRUE, last.before).buf
                  = rectangle(revision, blitter, fx.v2, fx.v1, c, TRUE, last.before).buf

\* a clipped call whose first corner is right of and below the canvas and
\* whose second corner is left of and above it: the whole canvas is filled
C30_Witness ==
    /\ fx.kind = "rectangle" /\ fx.op = "rectangle" /\ fx.clip
    /\ fx.v1.x > Num(Width) /\ fx.v1.y > Num(Height)
    /\ fx.v2.x < 0 /\ fx.v2.y < 0
    /\ \A k \in DOMAIN blitter.backbuffer32 :
          blitter.backbuffer32[k] = last.word /\ last.before[k] # last.word
====
